---- MODULE Spec2Model ----
(***************************************************************************)
(* The game ledger of gsiener/discore: the GameState Durable Object        *)
(* (packages/bot/src/durable-objects/GameState.ts, the class that starts   *)
(* at line 293).  One object owns one game; fetch() serves one request at  *)
(* a time, loading the game from durable storage when the object has just  *)
(* been constructed.                                                       *)
(*                                                                         *)
(* Left out of the records: the events' message, parsedBy, defensivePlay,  *)
(* the teams, chatId, the tournament fields, createdAt and updatedAt.  The *)
(* handlers copy them through and never read them.  The game's id is kept  *)
(* beside the record, in heldId, where the Router is modelled; an event's  *)
(* gameId is the id of the game whose log holds it.                        *)
(***************************************************************************)
EXTENDS Integers, Sequences, FiniteSets, TLC

VARIABLES
    game,        \* this.game: <<>> for null, <<g>> for a loaded Game
    stored,      \* state.storage 'game': <<>> when absent, <<g>> otherwise
    now,         \* Date.now()
    nextId,      \* the next identifier generateId() hands out
    last,        \* the response to the most recent request
    withScore,   \* history: ids of events appended with a score override
    replaced,    \* history: the last request was an init that found a game
    db,          \* the D1 database of the router: the games and events tables
    heldId,      \* game.id of the game the Router had the object create, 0 for none
    flight,      \* the addEvent calls that wait at `await request.json()`
    stats        \* a game handed to the statistics, and what they returned

vars == <<game, stored, now, nextId, last, withScore, replaced, db, heldId, flight,
          stats>>

(* What lies outside a single request to the object. *)
outside == <<db, heldId, flight, stats>>

----------------------------------------------------------------------------
(* Bounds of the model. *)

MaxTime == 2
MaxIds == 2
MaxGames == 2
MaxFlight == 2
MaxLog == 4
MaxSeason == 3
MaxPlays == 3

----------------------------------------------------------------------------
(* Optional values: undefined is <<>>, a present value v is <<v>>. *)

Undef == <<>>
Some(v) == <<v>>
Val(o) == o[1]

(* enum GameStatus *)
NOT_STARTED == "not_started"
FIRST_HALF == "first_half"
ST_HALFTIME == "halftime"
SECOND_HALF == "second_half"
FINISHED == "finished"

GameStatus == {NOT_STARTED, FIRST_HALF, ST_HALFTIME, SECOND_HALF, FINISHED}

(* enum EventType *)
GAME_START == "game_start"
GOAL == "goal"
HALFTIME == "halftime"
SECOND_HALF_START == "second_half_start"
GAME_END == "game_end"
TIMEOUT == "timeout"
NOTE == "note"

EventType == {GAME_START, GOAL, HALFTIME, SECOND_HALF_START, GAME_END, TIMEOUT, NOTE}

(* enum TeamSide; NoTeam is an absent team field. *)
US == "us"
THEM == "them"
NoTeam == "none"

TeamSide == {US, THEM}

ZeroScore == [us |-> 0, them |-> 0]

(* this.game.score[team]++ *)
IncScore(score, team) == [score EXCEPT ![team] = @ + 1]

----------------------------------------------------------------------------
(* JavaScript truthiness of an optional number: !timestamp is true for an  *)
(* absent field and for 0.                                                 *)
Falsy(optNum) == optNum = Undef \/ Val(optNum) = 0

(* Array.prototype.sort((a, b) => a.timestamp - b.timestamp): stable, so   *)
(* the result is the events of the least timestamp in the order they had,  *)
(* then those of the next timestamp, and so on.                            *)
RECURSIVE SortedFrom(_, _)
SortedFrom(s, stamps) ==
    IF stamps = {} THEN <<>>
    ELSE LET least == CHOOSE t \in stamps : \A u \in stamps : t <= u
             HasLeast(e) == e.timestamp = least
         IN SelectSeq(s, HasLeast) \o SortedFrom(s, stamps \ {least})

SortByTimestamp(s) == SortedFrom(s, {s[i].timestamp : i \in 1..Len(s)})

(* Responses: the HTTP status and the error of the JSON body. *)
Ok(op) == [code |-> 200, error |-> ""]
Err(op, code, msg) == [code |-> code, error |-> msg]

----------------------------------------------------------------------------
(* The handlers, as functions of the loaded game.  Each returns the game   *)
(* it leaves in this.game, whether it called saveGame(), and its response. *)

initGame ==
    [game |-> [status |-> NOT_STARTED,
               score |-> ZeroScore,
               events |-> <<>>,
               startedAt |-> Undef,
               finishedAt |-> Undef,
               startingOnOffense |-> Undef],
     saved |-> TRUE,
     resp |-> Ok("init")]

getGame(g) == [game |-> g, saved |-> FALSE, resp |-> Ok("get")]

(* A start that does not look at the status. *)
startGameUnguarded(g, t, id) ==
    LET g1 == [g EXCEPT !.status = FIRST_HALF, !.startedAt = Some(t)]
        event == [id |-> id, type |-> GAME_START,
                  timestamp |-> t, score |-> g1.score, team |-> NoTeam]
    IN [game |-> [g1 EXCEPT !.events = Append(@, event)],
        saved |-> TRUE,
        resp |-> Ok("start")]

startGame(g, t, id) ==
    IF g.status # NOT_STARTED
    THEN [game |-> g, saved |-> FALSE,
          resp |-> Err("start", 400, "Game already started")]
    ELSE LET g1 == [g EXCEPT !.status = FIRST_HALF, !.startedAt = Some(t)]
             event == [id |-> id, type |-> GAME_START,
                       timestamp |-> t, score |-> g1.score, team |-> NoTeam]
         IN [game |-> [g1 EXCEPT !.events = Append(@, event)],
             saved |-> TRUE,
             resp |-> Ok("start")]

(* A goal counted into the score although it brings its own snapshot. *)
addEventScoreCountsOverride(g, req) ==
    IF req.type = GOAL /\ req.team # NoTeam
    THEN [g EXCEPT !.score = IncScore(@, req.team)]
    ELSE g

(* addEvent, lines 444-447: the score after a goal. *)
addEventScore(g, req) ==
    IF req.type = GOAL /\ req.team # NoTeam /\ req.score = Undef
    THEN [g EXCEPT !.score = IncScore(@, req.team)]
    ELSE g

(* addEvent, lines 449-471: status, clock and possession flag. *)
addEventStatus(g, req, t) ==
    IF Falsy(req.timestamp)
    THEN IF req.type = GAME_START
         THEN [g EXCEPT !.status = FIRST_HALF,
                        !.startedAt = Some(t),
                        !.startingOnOffense =
                            IF req.startingOnOffense # Undef
                            THEN req.startingOnOffense ELSE @]
         ELSE IF req.type = HALFTIME
         THEN [g EXCEPT !.status = ST_HALFTIME]
         ELSE IF req.type = SECOND_HALF_START
         THEN [g EXCEPT !.status = SECOND_HALF]
         ELSE IF req.type = GAME_END
         THEN [g EXCEPT !.status = FINISHED, !.finishedAt = Some(t)]
         ELSE g
    ELSE IF req.type = GAME_START /\ req.startingOnOffense # Undef
         THEN [g EXCEPT !.startingOnOffense = req.startingOnOffense]
         ELSE g

(* addEvent, lines 473-483: the event record. *)
addEventRecord(g, req, t, id) ==
    [id |-> id, type |-> req.type,
     timestamp |-> IF Falsy(req.timestamp) THEN t ELSE Val(req.timestamp),
     score |-> IF req.score = Undef THEN g.score ELSE Val(req.score),
     team |-> req.team]

(* addEvent, lines 485-487: push, then sort. *)
addEventInsert(events, event) == SortByTimestamp(Append(events, event))

addEvent(g, req, t, id) ==
    LET g2 == addEventStatus(addEventScore(g, req), req, t)
        event == addEventRecord(g2, req, t, id)
    IN [game |-> [g2 EXCEPT !.events = addEventInsert(@, event)],
        saved |-> TRUE,
        resp |-> Ok("addEvent")]

(* An end that does not look at the status. *)
endGameUnguarded(g, t, id) ==
    LET g1 == [g EXCEPT !.status = FINISHED, !.finishedAt = Some(t)]
        event == [id |-> id, type |-> GAME_END,
                  timestamp |-> t, score |-> g1.score, team |-> NoTeam]
    IN [game |-> [g1 EXCEPT !.events = Append(@, event)],
        saved |-> TRUE,
        resp |-> Ok("end")]

endGame(g, t, id) ==
    IF g.status = FINISHED
    THEN [game |-> g, saved |-> FALSE,
          resp |-> Err("end", 400, "Game already finished")]
    ELSE LET g1 == [g EXCEPT !.status = FINISHED, !.finishedAt = Some(t)]
             event == [id |-> id, type |-> GAME_END,
                       timestamp |-> t, score |-> g1.score, team |-> NoTeam]
         IN [game |-> [g1 EXCEPT !.events = Append(@, event)],
             saved |-> TRUE,
             resp |-> Ok("end")]

(* The score loop of undoLastEvent. *)
RECURSIVE CountGoals(_)
CountGoals(events) ==
    IF events = <<>> THEN ZeroScore
    ELSE LET e == events[Len(events)]
             rest == CountGoals(SubSeq(events, 1, Len(events) - 1))
         IN IF e.type = GOAL /\ e.team # NoTeam THEN IncScore(rest, e.team)
            ELSE rest

(* A status that is left as it was whatever the remaining log ends with. *)
undoStatusKeeps(g, remaining) ==
    IF remaining # <<>> THEN g
    ELSE [g EXCEPT !.status = NOT_STARTED, !.startedAt = Undef]

(* undoLastEvent, lines 549-562: the status after the pop. *)
undoStatus(g, remaining) ==
    IF remaining # <<>>
    THEN LET lastRemainingEvent == remaining[Len(remaining)]
         IN IF lastRemainingEvent.type = HALFTIME
            THEN [g EXCEPT !.status = ST_HALFTIME]
            ELSE IF lastRemainingEvent.type = SECOND_HALF_START
            THEN [g EXCEPT !.status = SECOND_HALF]
            ELSE IF lastRemainingEvent.type = GAME_START
            THEN [g EXCEPT !.status = FIRST_HALF]
            ELSE g
    ELSE [g EXCEPT !.status = NOT_STARTED, !.startedAt = Undef]

(* An undoLastEvent that does not look at the length of the log. *)
undoLastEventUnguarded(g) ==
    LET remaining == SubSeq(g.events, 1, Len(g.events) - 1)
        g1 == [g EXCEPT !.events = remaining,
                        !.score = CountGoals(remaining)]
    IN [game |-> undoStatus(g1, remaining), saved |-> TRUE,
        resp |-> Ok("undo")]

undoLastEvent(g) ==
    IF g.events = <<>>
    THEN [game |-> g, saved |-> FALSE,
          resp |-> Err("undo", 400, "No events to undo")]
    ELSE LET remaining == SubSeq(g.events, 1, Len(g.events) - 1)
             g1 == [g EXCEPT !.events = remaining,
                             !.score = CountGoals(remaining)]
         IN [game |-> undoStatus(g1, remaining), saved |-> TRUE,
             resp |-> Ok("undo")]

(* A patch that leaves the possession flag as it was. *)
updateFieldsKeeps(g, updates) ==
    [game |-> g, saved |-> TRUE, resp |-> Ok("update")]

updateFields(g, updates) ==
    [game |-> IF updates.startingOnOffense # Undef
              THEN [g EXCEPT !.startingOnOffense = updates.startingOnOffense]
              ELSE g,
     saved |-> TRUE,
     resp |-> Ok("update")]

(* Math.max *)
Max(a, b) == IF a >= b THEN a ELSE b

(* A reduce that ends on the last element. *)
LastElement(s) == s[Len(s)]

(* Array.prototype.reduce of cleanupHalftimeEvents: the first element with *)
(* the least timestamp.                                                    *)
EarliestByTimestamp(s) ==
    s[CHOOSE i \in 1..Len(s) :
          \A j \in 1..Len(s) :
              \/ s[j].timestamp > s[i].timestamp
              \/ (s[j].timestamp = s[i].timestamp /\ j >= i)]

IsHalftime(e) == e.type = HALFTIME

(* A filter that keeps the chosen halftime and nothing else. *)
cleanupKeepsOnlyEarliest(e, earliestHalftime) == e.id = earliestHalftime.id

(* cleanupHalftimeEvents, lines 638-640: the events the filter keeps. *)
cleanupKeeps(e, earliestHalftime) ==
    e.type # HALFTIME \/ e.id = earliestHalftime.id

cleanupHalftimeEvents(g) ==
    LET halftimeEvents == SelectSeq(g.events, IsHalftime)
        finalScore == Max(g.score.us, g.score.them)
        threshold == IF finalScore = 15 THEN 8
                     ELSE IF finalScore = 13 THEN 7
                     ELSE 0
        HasThreshold(e) == e.score.us = threshold \/ e.score.them = threshold
        correctHalftimes == SelectSeq(halftimeEvents, HasThreshold)
        removes == /\ Len(halftimeEvents) > 1
                   /\ threshold > 0
                   /\ Len(correctHalftimes) > 0
        earliestHalftime == EarliestByTimestamp(correctHalftimes)
        Kept(e) == cleanupKeeps(e, earliestHalftime)
        g1 == IF removes THEN [g EXCEPT !.events = SelectSeq(@, Kept)] ELSE g
        hasGameEnd == \E i \in 1..Len(g1.events) : g1.events[i].type = GAME_END
        fixes == hasGameEnd /\ g1.status = ST_HALFTIME
        g2 == IF fixes THEN [g1 EXCEPT !.status = FINISHED] ELSE g1
    IN [game |-> g2, needsSave |-> removes \/ fixes]

----------------------------------------------------------------------------
(* fetch(): everything but POST /init first makes sure the game is loaded, *)
(* reading storage and running cleanupHalftimeEvents when this.game is     *)
(* null.                                                                   *)
Load ==
    IF game # Undef
    THEN [found |-> TRUE, game |-> Val(game), stored |-> stored]
    ELSE IF stored = Undef
    THEN [found |-> FALSE]
    ELSE LET c == cleanupHalftimeEvents(Val(stored))
         IN [found |-> TRUE, game |-> c.game,
             stored |-> IF c.needsSave THEN Some(c.game) ELSE stored]

NotFound(op) ==
    /\ game' = Undef
    /\ stored' = stored
    /\ last' = Err(op, 404, "Game not found")

(* A handler's result r becomes this.game; saveGame() puts it in storage. *)
Respond(l, r) ==
    /\ game' = Some(r.game)
    /\ stored' = IF r.saved THEN Some(r.game) ELSE l.stored
    /\ last' = r.resp

(* The request bodies of POST /events. *)
TimestampInputs == {Undef, Some(0), Some(1), Some(MaxTime)}

ScoreInputs == {Undef, Some([us |-> 1, them |-> 0])}

OffenseInputs == {Undef, Some(TRUE), Some(FALSE)}

AddEventRequests ==
    {[type |-> GOAL, team |-> tm, timestamp |-> ts, score |-> sc,
      startingOnOffense |-> Undef] :
        tm \in TeamSide, ts \in TimestampInputs, sc \in ScoreInputs}
    \cup
    {[type |-> GAME_START, team |-> NoTeam, timestamp |-> ts, score |-> Undef,
      startingOnOffense |-> so] :
        ts \in TimestampInputs, so \in {Undef, Some(TRUE)}}
    \cup
    {[type |-> ty, team |-> NoTeam, timestamp |-> ts, score |-> Undef,
      startingOnOffense |-> Undef] :
        ty \in {HALFTIME, SECOND_HALF_START, GAME_END}, ts \in TimestampInputs}
    \cup
    {[type |-> ty, team |-> NoTeam, timestamp |-> Undef, score |-> Undef,
      startingOnOffense |-> Undef] :
        ty \in {GOAL, TIMEOUT, NOTE}}

(* The requests that report a goal of one of the two teams. *)
GoalRequests == {req \in AddEventRequests : req.type = GOAL /\ req.team \in TeamSide}

UpdateRequests == {[startingOnOffense |-> so] : so \in OffenseInputs}

----------------------------------------------------------------------------
(* JavaScript numbers.  A positive Number is kept as its significand of 53 *)
(* bits and the exponent e of the leading bit.  The significand is written *)
(* as five digits <<d0, d1, d2, d3, d4>>: d0 is the leading 1 and d1..d4   *)
(* are 13 bits each, so the value is                                       *)
(*     (d0 + d1/Base + d2/Base^2 + d3/Base^3 + d4/Base^4) * 2^e.           *)
(* Zero has no digits.  Every operation rounds its exact result to the     *)
(* nearest such value, ties to the even significand, as IEEE 754 binary64  *)
(* does.                                                                   *)

DigitBits == 13

Base == 8192

NumberZero == [m |-> <<>>, e |-> 0]

RECURSIVE Pow2(_)
Pow2(k) == IF k = 0 THEN 1 ELSE 2 * Pow2(k - 1)

(* digits + 1 in the last place; a carry out of d0 gives the next power of *)
(* two.                                                                    *)
RECURSIVE DigitsIncrement(_, _)
DigitsIncrement(m, i) ==
    IF i = 1 THEN [m EXCEPT ![1] = @ + 1]
    ELSE IF m[i] + 1 < Base THEN [m EXCEPT ![i] = @ + 1]
    ELSE DigitsIncrement([m EXCEPT ![i] = 0], i - 1)

(* Round to nearest, ties to even, of a significand whose cut-off tail is  *)
(* above or at half a unit of the last place.                              *)
RoundSignificand(m, e, tailAboveHalf, tailIsHalf) ==
    IF tailAboveHalf \/ (tailIsHalf /\ m[Len(m)] % 2 = 1)
    THEN LET up == DigitsIncrement(m, Len(m))
         IN IF up[1] = 2
            THEN [m |-> <<1, 0, 0, 0, 0>>, e |-> e + 1]
            ELSE [m |-> up, e |-> e]
    ELSE [m |-> m, e |-> e]

(* n / d of two integers, 0 <= n and 0 < d: the operands are scaled until  *)
(* d <= n < 2 * d, which fixes the exponent; then long division, a digit   *)
(* at a time.                                                              *)
RECURSIVE NumberDivideScaled(_, _, _)
NumberDivideScaled(n, d, e) ==
    IF n < d THEN NumberDivideScaled(2 * n, d, e - 1)
    ELSE IF n >= 2 * d THEN NumberDivideScaled(n, 2 * d, e + 1)
    ELSE LET r0 == n - d
             d1 == (r0 * Base) \div d
             r1 == (r0 * Base) % d
             d2 == (r1 * Base) \div d
             r2 == (r1 * Base) % d
             d3 == (r2 * Base) \div d
             r3 == (r2 * Base) % d
             d4 == (r3 * Base) \div d
             r4 == (r3 * Base) % d
         IN RoundSignificand(<<1, d1, d2, d3, d4>>, e, 2 * r4 > d, 2 * r4 = d)

NumberDivide(n, d) == IF n = 0 THEN NumberZero ELSE NumberDivideScaled(n, d, 0)

(* x * c for an integer c with 2 <= c < Base: the digits times c with the  *)
(* carries, then the shift that brings the leading bit back to d0.         *)
NumberTimes(x, c) ==
    IF x.m = <<>> THEN NumberZero
    ELSE LET p4 == x.m[5] * c
             p3 == (x.m[4] * c) + (p4 \div Base)
             p2 == (x.m[3] * c) + (p3 \div Base)
             p1 == (x.m[2] * c) + (p2 \div Base)
             top == (x.m[1] * c) + (p1 \div Base)
             shift == CHOOSE k \in 1..DigitBits : Pow2(k) <= top /\ top < Pow2(k + 1)
             low == Pow2(shift)
             high == Pow2(DigitBits - shift)
             Digit(above, this) == ((above % low) * high) + ((this % Base) \div low)
             tail == (p4 % Base) % low
         IN RoundSignificand(<<1, Digit(top, p1), Digit(p1 % Base, p2),
                               Digit(p2 % Base, p3), Digit(p3 % Base, p4)>>,
                             x.e + shift,
                             2 * tail > low, 2 * tail = low)

(* Math.round of a Number x with 0 <= x < Base: the integer part, plus one *)
(* when the fraction is a half or more.                                    *)
MathRound(x) ==
    IF x.m = <<>> \/ x.e < -1 THEN 0
    ELSE IF x.e = -1 THEN 1
    ELSE LET fraction == Pow2(DigitBits - x.e)
         IN (x.m[1] * Pow2(x.e)) + (x.m[2] \div fraction)
                + (((2 * x.m[2]) \div fraction) % 2)

----------------------------------------------------------------------------
(* calculateLineStats (shared utils).  A loop over the log is run on its   *)
(* state up to the middle of what is left and then from there on, which    *)
(* visits the events in the order of the loop.                             *)

IsGoal(e) == e.type = GOAL

(* oLinePoints > 0 ? Math.round((oLineHolds / oLinePoints) * 100) : 0 *)
Percentage(part, whole) ==
    IF whole > 0 THEN MathRound(NumberTimes(NumberDivide(part, whole), 100)) ELSE 0

(* A loop body that lets a point go uncounted when we do not score it. *)
lineStatsGoalOursOnly(acc, goalEvents) ==
    LET event == goalEvents[acc.next]
        counted ==
            IF event.team # US THEN acc
            ELSE IF acc.weHavePossession
            THEN [acc EXCEPT !.oLinePoints = @ + 1, !.oLineHolds = @ + 1]
            ELSE [acc EXCEPT !.dLinePoints = @ + 1, !.dLineBreaks = @ + 1]
    IN [counted EXCEPT !.weHavePossession = (event.team # US), !.next = @ + 1]

(* The body of goalEvents.forEach, on the state of the loop: the counters, *)
(* weHavePossession and the index of the goal that comes next.             *)
lineStatsGoal(acc, goalEvents) ==
    LET event == goalEvents[acc.next]
        counted ==
            IF acc.weHavePossession
            THEN [acc EXCEPT !.oLinePoints = @ + 1,
                             !.oLineHolds = IF event.team = US THEN @ + 1 ELSE @]
            ELSE [acc EXCEPT !.dLinePoints = @ + 1,
                             !.dLineBreaks = IF event.team = US THEN @ + 1 ELSE @]
    IN [counted EXCEPT !.weHavePossession = (event.team # US), !.next = @ + 1]

(* The loop from its state acc up to the goal at index to. *)
RECURSIVE lineStatsGoals(_, _, _)
lineStatsGoals(goalEvents, to, acc) ==
    IF acc.next > to THEN acc
    ELSE IF acc.next = to THEN lineStatsGoal(acc, goalEvents)
    ELSE lineStatsGoals(goalEvents, to,
                        lineStatsGoals(goalEvents, (acc.next + to) \div 2, acc))

ZeroLineStats ==
    [oLinePoints |-> 0, oLineHolds |-> 0, oLineHoldPercentage |-> 0,
     dLinePoints |-> 0, dLineBreaks |-> 0, dLineBreakPercentage |-> 0]

(* calculateLineStats from the filter on, for a known possession. *)
lineStatsFrom(g) ==
    LET goalEvents == SelectSeq(g.events, IsGoal)
        sums == lineStatsGoals(goalEvents, Len(goalEvents),
                               [oLinePoints |-> 0, oLineHolds |-> 0,
                                dLinePoints |-> 0, dLineBreaks |-> 0,
                                weHavePossession |-> Val(g.startingOnOffense),
                                next |-> 1])
    IN IF Len(goalEvents) = 0 THEN ZeroLineStats
       ELSE [oLinePoints |-> sums.oLinePoints,
             oLineHolds |-> sums.oLineHolds,
             oLineHoldPercentage |-> Percentage(sums.oLineHolds, sums.oLinePoints),
             dLinePoints |-> sums.dLinePoints,
             dLineBreaks |-> sums.dLineBreaks,
             dLineBreakPercentage |-> Percentage(sums.dLineBreaks, sums.dLinePoints)]

(* A calculateLineStats that answers an unknown possession with zeros. *)
calculateLineStatsZeros(g) ==
    IF g.startingOnOffense = Undef THEN Some(ZeroLineStats)
    ELSE Some(lineStatsFrom(g))

(* null is <<>>, a LineStats value v is <<v>>. *)
calculateLineStats(g) ==
    IF g.startingOnOffense = Undef THEN Undef
    ELSE Some(lineStatsFrom(g))

----------------------------------------------------------------------------
(* StatsCalculator.  Array indices count from 1 here, and an index that    *)
(* findIndex does not find is 0.                                           *)

(* game.events.findIndex(e => e.type === EventType.HALFTIME) *)
HalftimeIndex(events) ==
    IF \E i \in 1..Len(events) : events[i].type = HALFTIME
    THEN CHOOSE i \in 1..Len(events) :
             /\ events[i].type = HALFTIME
             /\ \A j \in 1..(i - 1) : events[j].type # HALFTIME
    ELSE 0

(* Only the event right after the timeout decides it. *)
NextEventIfGoal(events, timeoutIndex) ==
    IF timeoutIndex < Len(events) /\ events[timeoutIndex + 1].type = GOAL
    THEN timeoutIndex + 1
    ELSE 0

(* game.events.findIndex((e, i) => i > timeoutIndex && e.type === GOAL) *)
NextGoalIndex(events, timeoutIndex) ==
    IF \E i \in (timeoutIndex + 1)..Len(events) : events[i].type = GOAL
    THEN CHOOSE i \in (timeoutIndex + 1)..Len(events) :
             /\ events[i].type = GOAL
             /\ \A j \in (timeoutIndex + 1)..(i - 1) : events[j].type # GOAL
    ELSE 0

(* The indices in game.events of the events of ourTimeouts, in order. *)
RECURSIVE OurTimeoutIndices(_, _)
OurTimeoutIndices(events, from) ==
    IF from > Len(events) THEN <<>>
    ELSE IF events[from].type = TIMEOUT /\ events[from].team = US
    THEN <<from>> \o OurTimeoutIndices(events, from + 1)
    ELSE OurTimeoutIndices(events, from + 1)

(* The body of ourTimeouts.forEach. *)
timeoutEfficiencyTimeout(acc, events, timeoutIndex, halftimeIndex) ==
    LET halved ==
            IF halftimeIndex > 0 /\ timeoutIndex < halftimeIndex
            THEN [acc EXCEPT !.timeoutsInFirstHalf = @ + 1]
            ELSE IF halftimeIndex > 0
            THEN [acc EXCEPT !.timeoutsInSecondHalf = @ + 1]
            ELSE [acc EXCEPT !.timeoutsInFirstHalf = @ + 1]
        nextGoalIndex == NextGoalIndex(events, timeoutIndex)
    IN IF nextGoalIndex > 0
       THEN IF events[nextGoalIndex].team = US
            THEN [halved EXCEPT !.pointsScoredAfter = @ + 1]
            ELSE [halved EXCEPT !.pointsAllowedAfter = @ + 1]
       ELSE halved

RECURSIVE timeoutEfficiencyTimeouts(_, _, _, _)
timeoutEfficiencyTimeouts(acc, events, ourTimeouts, halftimeIndex) ==
    IF ourTimeouts = <<>> THEN acc
    ELSE timeoutEfficiencyTimeouts(
             timeoutEfficiencyTimeout(acc, events, Head(ourTimeouts), halftimeIndex),
             events, Tail(ourTimeouts), halftimeIndex)

(* totalTimeouts > 0 ? (pointsScoredAfter / totalTimeouts) * 100 : 0 *)
conversionRate(pointsScoredAfter, totalTimeouts) ==
    IF totalTimeouts > 0
    THEN NumberTimes(NumberDivide(pointsScoredAfter, totalTimeouts), 100)
    ELSE NumberZero

calculateTimeoutEfficiency(g) ==
    LET ourTimeouts == OurTimeoutIndices(g.events, 1)
        sums == timeoutEfficiencyTimeouts(
                    [timeoutsInFirstHalf |-> 0, timeoutsInSecondHalf |-> 0,
                     pointsScoredAfter |-> 0, pointsAllowedAfter |-> 0],
                    g.events, ourTimeouts, HalftimeIndex(g.events))
        totalTimeouts == Len(ourTimeouts)
    IN [totalTimeouts |-> totalTimeouts,
        timeoutsInFirstHalf |-> sums.timeoutsInFirstHalf,
        timeoutsInSecondHalf |-> sums.timeoutsInSecondHalf,
        pointsScoredAfterTimeout |-> sums.pointsScoredAfter,
        pointsAllowedAfterTimeout |-> sums.pointsAllowedAfter,
        conversionRate |-> conversionRate(sums.pointsScoredAfter, totalTimeouts)]

(* A message is the sequence of its words, which spaces separate; the     *)
(* words here are made of letters only.  Those that match [A-Z][a-z]+:     *)
CapitalizedWords == {"Jake", "Mason", "Goal", "Tech", "Hawks"}

(* The names of the two teams of the games handed to the statistics. *)
StatsTeams == [us |-> <<"Tech">>, them |-> <<"Hawks">>]

commonWords ==
    {"Goal", "Score", "Point", "Block", "Steal", "Timeout", "Halftime",
     "Game", "Nice", "Great", "Awesome", "Tech", "We", "They", "Us", "Them",
     "The", "And", "For", "With", "From", "Break", "Hold", "Line",
     "End", "Zone", "Opponent", "Magic", "Bard", "Pool", "Universe",
     "Final", "Good", "Win", "Lost", "First", "Second", "Half",
     "Columbia", "Westfield", "Montclair", "Beacon"}

(* The words of a team's name longer than two letters that start with a    *)
(* capital.                                                                *)
TeamNameWords(name) ==
    {name[i] : i \in {j \in 1..Len(name) :
                         Len(name[j]) > 2 /\ name[j] \in CapitalizedWords}}

teamWords == TeamNameWords(StatsTeams.us) \cup TeamNameWords(StatsTeams.them)

RECURSIVE extractPlayerNames(_)
extractPlayerNames(message) ==
    IF message = <<>> THEN <<>>
    ELSE LET word == Head(message)
         IN IF /\ word \in CapitalizedWords
               /\ word \notin commonWords
               /\ word \notin teamWords
               /\ Len(word) > 2
            THEN <<word>> \o extractPlayerNames(Tail(message))
            ELSE extractPlayerNames(Tail(message))

(* Where /\b([A-Z][a-z]+)\s+to\s+([A-Z][a-z]+)\b/i first matches: two     *)
(* words of two letters or more with the word "to" between them.           *)
AssistMatches(message) ==
    {i \in 1..(Len(message) - 2) :
        /\ Len(message[i]) >= 2
        /\ message[i + 1] = "to"
        /\ Len(message[i + 2]) >= 2}

parseGoalEvent(message) ==
    LET matches == AssistMatches(message)
        names == extractPlayerNames(message)
    IN IF matches # {}
       THEN LET i == CHOOSE m \in matches : \A n \in matches : m <= n
            IN [scorer |-> Some(message[i + 2]), assister |-> Some(message[i])]
       ELSE IF Len(names) > 0
       THEN [scorer |-> Some(names[1]), assister |-> Undef]
       ELSE [scorer |-> Undef, assister |-> Undef]

(* playerMap.has(name): the map is the sequence of its values in the order *)
(* in which the keys were set.                                             *)
HasPlayer(playerMap, name) == \E i \in 1..Len(playerMap) : playerMap[i].name = name

getOrCreatePlayerStats(playerMap, name) ==
    IF HasPlayer(playerMap, name) THEN playerMap
    ELSE Append(playerMap,
                [name |-> name, goals |-> 0, assists |-> 0, blocks |-> 0,
                 steals |-> 0, pointsPlayed |-> 0, plusMinus |-> 0,
                 touches |-> 0])

(* stats.touches++ on the entry of a name. *)
Touch(playerMap, name) ==
    LET created == getOrCreatePlayerStats(playerMap, name)
    IN [i \in 1..Len(created) |->
           IF created[i].name = name
           THEN [created[i] EXCEPT !.touches = @ + 1]
           ELSE created[i]]

(* players.forEach(name => stats.touches++) *)
RECURSIVE TouchAll(_, _)
TouchAll(playerMap, players) ==
    IF players = <<>> THEN playerMap
    ELSE TouchAll(Touch(playerMap, Head(players)), Tail(players))

(* stats.goals++; stats.touches++ *)
CreditGoal(playerMap, scorer) ==
    IF scorer = Undef THEN playerMap
    ELSE LET touched == Touch(playerMap, Val(scorer))
         IN [i \in 1..Len(touched) |->
                IF touched[i].name = Val(scorer)
                THEN [touched[i] EXCEPT !.goals = @ + 1]
                ELSE touched[i]]

(* stats.assists++; stats.touches++ *)
CreditAssist(playerMap, assister) ==
    IF assister = Undef THEN playerMap
    ELSE LET touched == Touch(playerMap, Val(assister))
         IN [i \in 1..Len(touched) |->
                IF touched[i].name = Val(assister)
                THEN [touched[i] EXCEPT !.assists = @ + 1]
                ELSE touched[i]]

(* !event.message *)
NoMessage(event) == event.message = Undef \/ Val(event.message) = <<>>

SeqRange(seq) == {seq[i] : i \in 1..Len(seq)}

(* The body of the loop of calculatePlayerStats, on the event at acc.next. *)
(* No event here carries a defensivePlay, so blocks and steals stay 0.     *)
playerStatsEvent(acc, events) ==
    LET event == events[acc.next]
    IN IF NoMessage(event) THEN [acc EXCEPT !.next = @ + 1]
       ELSE
       LET message == Val(event.message)
           players == extractPlayerNames(message)
           currentPointPlayers == acc.currentPointPlayers \cup SeqRange(players)
           point == [score |-> event.score, players |-> currentPointPlayers]
       IN IF event.type = GOAL /\ event.team = US
          THEN LET parsed == parseGoalEvent(message)
               IN [next |-> acc.next + 1,
                   playerMap |-> CreditAssist(CreditGoal(acc.playerMap, parsed.scorer),
                                              parsed.assister),
                   pointScores |-> Append(acc.pointScores, point),
                   currentPointPlayers |-> {}]
          ELSE IF event.type = GOAL /\ event.team = THEM
          THEN [next |-> acc.next + 1,
                playerMap |-> TouchAll(acc.playerMap, players),
                pointScores |-> Append(acc.pointScores, point),
                currentPointPlayers |-> {}]
          ELSE [next |-> acc.next + 1,
                playerMap |-> TouchAll(acc.playerMap, players),
                pointScores |-> acc.pointScores,
                currentPointPlayers |-> currentPointPlayers]

RECURSIVE playerStatsEvents(_, _, _)
playerStatsEvents(events, to, acc) ==
    IF acc.next > to THEN acc
    ELSE IF acc.next = to THEN playerStatsEvent(acc, events)
    ELSE playerStatsEvents(events, to,
                           playerStatsEvents(events, (acc.next + to) \div 2, acc))

RECURSIVE calculatePlusMinus(_, _, _)
calculatePlusMinus(playerMap, pointScores, prevScore) ==
    IF pointScores = <<>> THEN playerMap
    ELSE LET point == Head(pointScores)
             scoreDiff == (point.score.us - prevScore.us)
                          - (point.score.them - prevScore.them)
         IN calculatePlusMinus(
                [i \in 1..Len(playerMap) |->
                    IF playerMap[i].name \in point.players
                    THEN [playerMap[i] EXCEPT !.plusMinus = @ + scoreDiff]
                    ELSE playerMap[i]],
                Tail(pointScores), point.score)

(* Math.min(goals + assists + Math.floor(touches / 2), us + them) *)
pointsPlayed(player, score) ==
    LET estimate == player.goals + player.assists + (player.touches \div 2)
        cap == score.us + score.them
    IN IF estimate <= cap THEN estimate ELSE cap

(* The comparator of the final sort: negative when a goes before b. *)
ComparePlayers(a, b) ==
    IF b.goals # a.goals THEN b.goals - a.goals ELSE b.assists - a.assists

(* Array.prototype.sort, which is stable. *)
RECURSIVE SortPlayers(_)
SortPlayers(players) ==
    IF players = <<>> THEN <<>>
    ELSE LET sorted == SortPlayers(SubSeq(players, 1, Len(players) - 1))
             latest == players[Len(players)]
             before == Cardinality({i \in 1..Len(sorted) :
                                       ComparePlayers(sorted[i], latest) <= 0})
         IN SubSeq(sorted, 1, before) \o <<latest>>
            \o SubSeq(sorted, before + 1, Len(sorted))

calculatePlayerStats(g) ==
    LET looped == playerStatsEvents(g.events, Len(g.events),
                      [next |-> 1, playerMap |-> <<>>, pointScores |-> <<>>,
                       currentPointPlayers |-> {}])
        rated == calculatePlusMinus(looped.playerMap, looped.pointScores,
                                    [us |-> 0, them |-> 0])
    IN SortPlayers([i \in 1..Len(rated) |->
                       [rated[i] EXCEPT !.pointsPlayed = pointsPlayed(rated[i], g.score)]])

Abs(a) == IF a < 0 THEN 0 - a ELSE a

(* diff > 0 ? 'us' : diff < 0 ? 'them' : 'tied' *)
Leader(diff) == IF diff > 0 THEN US ELSE IF diff < 0 THEN THEM ELSE "tied"

(* The body of the loop of calculateMomentum, on the event at acc.next. *)
momentumEvent(acc, events) ==
    LET event == events[acc.next]
        diff == event.score.us - event.score.them
        currentLeader == Leader(diff)
    IN IF event.type # GOAL THEN [acc EXCEPT !.next = @ + 1]
       ELSE [next |-> acc.next + 1,
             largestLead |->
                 IF diff > 0 THEN Max(acc.largestLead, diff) ELSE acc.largestLead,
             largestDeficit |->
                 IF diff < 0 THEN Max(acc.largestDeficit, Abs(diff))
                 ELSE acc.largestDeficit,
             leadChanges |->
                 IF currentLeader # acc.previousLeader /\ acc.previousLeader # "tied"
                 THEN acc.leadChanges + 1
                 ELSE acc.leadChanges,
             previousLeader |-> currentLeader,
             comebackPoints |->
                 IF event.team = US /\ diff < 0 THEN acc.comebackPoints + 1
                 ELSE acc.comebackPoints,
             maxComebackFrom |->
                 IF event.team = US /\ diff < 0
                 THEN Max(acc.maxComebackFrom, Abs(diff))
                 ELSE acc.maxComebackFrom,
             currentDeficit |->
                 IF (event.team = US \/ event.team = THEM) /\ diff < 0
                 THEN Abs(diff)
                 ELSE acc.currentDeficit]

RECURSIVE momentumEvents(_, _, _)
momentumEvents(events, to, acc) ==
    IF acc.next > to THEN acc
    ELSE IF acc.next = to THEN momentumEvent(acc, events)
    ELSE momentumEvents(events, to,
                        momentumEvents(events, (acc.next + to) \div 2, acc))

calculateMomentum(g) ==
    LET sums == momentumEvents(g.events, Len(g.events),
                    [next |-> 1, largestLead |-> 0, largestDeficit |-> 0,
                     leadChanges |-> 0, previousLeader |-> "tied",
                     comebackPoints |-> 0, maxComebackFrom |-> 0,
                     currentDeficit |-> 0])
    IN [largestLead |-> sums.largestLead,
        largestDeficit |-> sums.largestDeficit,
        leadChanges |-> sums.leadChanges,
        comebackPoints |-> sums.comebackPoints,
        maxComebackFrom |-> sums.maxComebackFrom]

(* Points within to consider "close" *)
CLOSE_GAME_THRESHOLD == 2

(* The body of the loop of calculateCloseGamePerformance, on the event at  *)
(* acc.next.                                                               *)
closeGameEvent(acc, events) ==
    LET event == events[acc.next]
        prevDiff == Abs(acc.prevScore.us - acc.prevScore.them)
        within == prevDiff <= CLOSE_GAME_THRESHOLD
    IN IF event.type # GOAL THEN [acc EXCEPT !.next = @ + 1]
       ELSE [next |-> acc.next + 1,
             pointsPlayedWithin2 |->
                 IF within THEN acc.pointsPlayedWithin2 + 1
                 ELSE acc.pointsPlayedWithin2,
             ourScoreWithin2 |->
                 IF within /\ event.team = US THEN acc.ourScoreWithin2 + 1
                 ELSE acc.ourScoreWithin2,
             theirScoreWithin2 |->
                 IF within /\ event.team # US THEN acc.theirScoreWithin2 + 1
                 ELSE acc.theirScoreWithin2,
             prevScore |-> event.score]

RECURSIVE closeGameEvents(_, _, _)
closeGameEvents(events, to, acc) ==
    IF acc.next > to THEN acc
    ELSE IF acc.next = to THEN closeGameEvent(acc, events)
    ELSE closeGameEvents(events, to,
                         closeGameEvents(events, (acc.next + to) \div 2, acc))

calculateCloseGamePerformance(g) ==
    LET sums == closeGameEvents(g.events, Len(g.events),
                    [next |-> 1, pointsPlayedWithin2 |-> 0, ourScoreWithin2 |-> 0,
                     theirScoreWithin2 |-> 0, prevScore |-> [us |-> 0, them |-> 0]])
    IN [pointsPlayedWithin2 |-> sums.pointsPlayedWithin2,
        scoreDifferentialWithin2 |-> sums.ourScoreWithin2 - sums.theirScoreWithin2]

HalfScore(score) ==
    [ourScore |-> score.us, theirScore |-> score.them,
     scoreDifferential |-> score.us - score.them]

calculateHalfPerformance(g) ==
    LET halftimeIndex == HalftimeIndex(g.events)
        firstHalfScore ==
            IF halftimeIndex > 0 THEN g.events[halftimeIndex].score ELSE g.score
        secondHalfScore ==
            IF halftimeIndex > 0
            THEN [us |-> g.score.us - firstHalfScore.us,
                  them |-> g.score.them - firstHalfScore.them]
            ELSE [us |-> 0, them |-> 0]
    IN [firstHalf |-> HalfScore(firstHalfScore),
        secondHalf |-> HalfScore(secondHalfScore)]

(* An average over the whole of the games, whoever played in them. *)
perGameOfAll(total, gamesPlayed) == NumberDivide(total, 1)

(* stats.goals / stats.gamesPlayed *)
perGame(total, gamesPlayed) == NumberDivide(total, gamesPlayed)

(* The body of gameStats.forEach: the player's entry is created if the map *)
(* lacks it, and the statistics of the game are added to it.               *)
aggregatePlayer(playerMap, playerStat) ==
    LET created ==
            IF HasPlayer(playerMap, playerStat.name) THEN playerMap
            ELSE Append(playerMap,
                        [name |-> playerStat.name, goals |-> 0, assists |-> 0,
                         blocks |-> 0, steals |-> 0, pointsPlayed |-> 0,
                         plusMinus |-> 0, touches |-> 0, gamesPlayed |-> 0,
                         goalsPerGame |-> NumberZero, assistsPerGame |-> NumberZero,
                         blocksPerGame |-> NumberZero, stealsPerGame |-> NumberZero])
    IN [i \in 1..Len(created) |->
           IF created[i].name = playerStat.name
           THEN [created[i] EXCEPT !.goals = @ + playerStat.goals,
                                   !.assists = @ + playerStat.assists,
                                   !.blocks = @ + playerStat.blocks,
                                   !.steals = @ + playerStat.steals,
                                   !.pointsPlayed = @ + playerStat.pointsPlayed,
                                   !.plusMinus = @ + playerStat.plusMinus,
                                   !.touches = @ + playerStat.touches,
                                   !.gamesPlayed = @ + 1]
           ELSE created[i]]

RECURSIVE aggregateGameStats(_, _)
aggregateGameStats(playerMap, gameStats) ==
    IF gameStats = <<>> THEN playerMap
    ELSE aggregateGameStats(aggregatePlayer(playerMap, Head(gameStats)), Tail(gameStats))

(* games.forEach *)
RECURSIVE aggregateGames(_, _)
aggregateGames(playerMap, games) ==
    IF games = <<>> THEN playerMap
    ELSE aggregateGames(aggregateGameStats(playerMap, calculatePlayerStats(Head(games))),
                        Tail(games))

aggregatePlayerStats(games) ==
    LET summed == aggregateGames(<<>>, games)
    IN SortPlayers([i \in 1..Len(summed) |->
           [summed[i] EXCEPT
               !.goalsPerGame = perGame(summed[i].goals, summed[i].gamesPlayed),
               !.assistsPerGame = perGame(summed[i].assists, summed[i].gamesPlayed),
               !.blocksPerGame = perGame(summed[i].blocks, summed[i].gamesPlayed),
               !.stealsPerGame = perGame(summed[i].steals, summed[i].gamesPlayed)]])

(* The comparator of the sort of calculateTeamTrends; localeCompare of two *)
(* dates has the sign of the difference of their days.                     *)
CompareDates(a, b) ==
    IF Falsy(a.gameDate) \/ Falsy(b.gameDate) THEN 0
    ELSE Val(a.gameDate) - Val(b.gameDate)

(* [...games].sort(comparator): a stable sort, the games of equal dates    *)
(* keep their order.                                                       *)
RECURSIVE SortByDate(_)
SortByDate(games) ==
    IF games = <<>> THEN <<>>
    ELSE LET sorted == SortByDate(SubSeq(games, 1, Len(games) - 1))
             latest == games[Len(games)]
             before == Cardinality({i \in 1..Len(sorted) :
                                       CompareDates(sorted[i], latest) <= 0})
         IN SubSeq(sorted, 1, before) \o <<latest>>
            \o SubSeq(sorted, before + 1, Len(sorted))

(* The body of games.forEach of calculateOverallRecord. *)
RECURSIVE overallRecordGames(_, _)
overallRecordGames(acc, games) ==
    IF games = <<>> THEN acc
    ELSE LET g == Head(games)
         IN overallRecordGames(
                IF g.score.us > g.score.them THEN [acc EXCEPT !.wins = @ + 1]
                ELSE IF g.score.them > g.score.us THEN [acc EXCEPT !.losses = @ + 1]
                ELSE acc,
                Tail(games))

calculateOverallRecord(games) ==
    LET sums == overallRecordGames([wins |-> 0, losses |-> 0], games)
        totalGames == sums.wins + sums.losses
    IN [wins |-> sums.wins, losses |-> sums.losses,
        winPercentage |-> IF totalGames > 0
                          THEN NumberTimes(NumberDivide(sums.wins, totalGames), 100)
                          ELSE NumberZero]

(* The body of games.forEach of calculateStreaks. *)
streaksGame(acc, g) ==
    IF g.score.us > g.score.them
    THEN [acc EXCEPT
             !.tempWinStreak = @ + 1,
             !.tempLossStreak = 0,
             !.currentStreak = IF acc.currentStreak >= 0 THEN @ + 1 ELSE 1,
             !.currentStreakGames = IF acc.currentStreak >= 0 THEN Append(@, g.id)
                                    ELSE <<g.id>>,
             !.longestWinStreak = Max(@, acc.tempWinStreak + 1)]
    ELSE IF g.score.them > g.score.us
    THEN [acc EXCEPT
             !.tempLossStreak = @ + 1,
             !.tempWinStreak = 0,
             !.currentStreak = IF acc.currentStreak <= 0 THEN @ - 1 ELSE 0 - 1,
             !.currentStreakGames = IF acc.currentStreak <= 0 THEN Append(@, g.id)
                                    ELSE <<g.id>>,
             !.longestLossStreak = Max(@, acc.tempLossStreak + 1)]
    ELSE acc

RECURSIVE streaksGames(_, _)
streaksGames(acc, games) ==
    IF games = <<>> THEN acc
    ELSE streaksGames(streaksGame(acc, Head(games)), Tail(games))

calculateStreaks(games) ==
    LET sums == streaksGames([currentStreak |-> 0, longestWinStreak |-> 0,
                              longestLossStreak |-> 0, currentStreakGames |-> <<>>,
                              tempWinStreak |-> 0, tempLossStreak |-> 0], games)
    IN [currentStreak |-> sums.currentStreak,
        longestWinStreak |-> sums.longestWinStreak,
        longestLossStreak |-> sums.longestLossStreak,
        currentStreakGames |-> sums.currentStreakGames]

(* calculateTeamTrends: the record and the streaks of the games sorted by  *)
(* date.  The scoring patterns, the opponent and tournament records and    *)
(* the recent form are further functions of the same sorted array.         *)
calculateTeamTrends(games) ==
    LET sortedGames == SortByDate(games)
    IN [overallRecord |-> calculateOverallRecord(sortedGames),
        streaks |-> calculateStreaks(sortedGames)]

(* No game has been handed to the statistics. *)
NoStats == [game |-> Undef, games |-> <<>>, of |-> "none", result |-> Undef]

----------------------------------------------------------------------------
(* DatabaseService: the games and events tables of D1, as functions from   *)
(* the primary key to the row.  A column is <<>> for NULL and <<v>> for a  *)
(* value; in a Game read back, null and undefined are both the absent      *)
(* value.  The rows carry the columns of the fields that the game records  *)
(* carry.                                                                  *)

DbNull == <<>>

EmptyDb == [games |-> <<>>, events |-> <<>>]

(* x || null *)
OrNull(opt) == IF Falsy(opt) THEN DbNull ELSE opt

(* game.startingOnOffense !== undefined ? (game.startingOnOffense ? 1 : 0) : null *)
OffenseColumn(opt) == IF opt = Undef THEN DbNull ELSE IF Val(opt) THEN Some(1) ELSE Some(0)

(* gameRow.starting_on_offense !== null ? gameRow.starting_on_offense === 1 : undefined *)
OffenseField(col) == IF col # DbNull THEN Some(Val(col) = 1) ELSE Undef

gameRow(g) ==
    [status |-> g.status,
     score_us |-> g.score.us,
     score_them |-> g.score.them,
     started_at |-> OrNull(g.startedAt),
     finished_at |-> OrNull(g.finishedAt),
     starting_on_offense |-> OffenseColumn(g.startingOnOffense)]

(* The row of saveEvent; event.gameId is the id of the game whose log      *)
(* holds the event.                                                        *)
eventRow(e, gameId) ==
    [game_id |-> gameId,
     type |-> e.type,
     timestamp |-> e.timestamp,
     score_us |-> e.score.us,
     score_them |-> e.score.them,
     team |-> IF e.team = NoTeam THEN DbNull ELSE Some(e.team)]

(* INSERT OR REPLACE of one row. *)
Upsert(table, key, row) ==
    [k \in DOMAIN table \cup {key} |-> IF k = key THEN row ELSE table[k]]

(* The loop of saveGame over game.events. *)
RECURSIVE saveEvents(_, _, _)
saveEvents(table, events, gameId) ==
    IF events = <<>> THEN table
    ELSE saveEvents(Upsert(table, Head(events).id, eventRow(Head(events), gameId)),
                    Tail(events), gameId)

saveGame(d, gameId, g) ==
    [games |-> Upsert(d.games, gameId, gameRow(g)),
     events |-> saveEvents(d.events, g.events, gameId)]

(* SELECT * FROM events WHERE game_id = ? ORDER BY timestamp ASC: the rows *)
(* of one timestamp come in the order of their keys.                       *)
RECURSIVE eventRows(_, _, _)
eventRows(d, gameId, keys) ==
    IF keys = {} THEN <<>>
    ELSE LET first == CHOOSE k \in keys : \A j \in keys :
                          \/ d.events[k].timestamp < d.events[j].timestamp
                          \/ /\ d.events[k].timestamp = d.events[j].timestamp
                             /\ k <= j
         IN <<[id |-> first] @@ d.events[first]>> \o eventRows(d, gameId, keys \ {first})

mapToEvent(row) ==
    [id |-> row.id,
     type |-> row.type,
     timestamp |-> row.timestamp,
     score |-> [us |-> row.score_us, them |-> row.score_them],
     team |-> IF row.team = DbNull THEN NoTeam ELSE Val(row.team)]

mapToGame(gameRowOf, rows) ==
    [status |-> gameRowOf.status,
     score |-> [us |-> gameRowOf.score_us, them |-> gameRowOf.score_them],
     events |-> [i \in 1..Len(rows) |-> mapToEvent(rows[i])],
     startedAt |-> gameRowOf.started_at,
     finishedAt |-> gameRowOf.finished_at,
     startingOnOffense |-> OffenseField(gameRowOf.starting_on_offense)]

(* DatabaseService.getGame, for a gameId that has a row. *)
dbGetGame(d, gameId) ==
    mapToGame(d.games[gameId],
              eventRows(d, gameId,
                        {k \in DOMAIN d.events : d.events[k].game_id = gameId}))

OutsideInit ==
    /\ db = EmptyDb
    /\ heldId = 0
    /\ flight = <<>>
    /\ stats = NoStats

----------------------------------------------------------------------------
(* The state after construction over empty storage. *)
Init ==
    /\ game = Undef
    /\ stored = Undef
    /\ now = 1
    /\ nextId = 1
    /\ last = Ok("none")
    /\ withScore = {}
    /\ replaced = FALSE
    /\ OutsideInit

(* An init that refuses a key that holds a game. *)
InitGameRejectsHeld ==
    /\ IF game = Undef /\ stored = Undef
       THEN /\ game' = Some(initGame.game)
            /\ stored' = Some(initGame.game)
            /\ last' = initGame.resp
       ELSE /\ UNCHANGED <<game, stored>>
            /\ last' = Err("init", 400, "Game already initialized")
    /\ replaced' = (game # Undef \/ stored # Undef)
    /\ UNCHANGED <<now, nextId, withScore, outside>>

(* POST /init, as the object serves it. *)
FetchInit ==
    /\ LET r == initGame
       IN /\ game' = Some(r.game)
          /\ stored' = Some(r.game)
          /\ last' = r.resp
    /\ replaced' = (game # Undef \/ stored # Undef)
    /\ UNCHANGED <<now, nextId, withScore>>

(* POST /init *)
InitGame == FetchInit /\ UNCHANGED outside

(* GET / *)
GetGame ==
    /\ LET l == Load
       IN IF l.found THEN Respond(l, getGame(l.game)) ELSE NotFound("get")
    /\ replaced' = FALSE
    /\ UNCHANGED <<now, nextId, withScore, outside>>

(* POST /start *)
StartGame ==
    /\ nextId <= MaxIds
    /\ LET l == Load
       IN IF l.found
          THEN LET r == startGame(l.game, now, nextId)
               IN /\ Respond(l, r)
                  /\ nextId' = IF r.saved THEN nextId + 1 ELSE nextId
          ELSE NotFound("start") /\ nextId' = nextId
    /\ replaced' = FALSE
    /\ UNCHANGED <<now, withScore, outside>>

(* POST /events, as the object serves it. *)
FetchEvents(req) ==
    /\ nextId <= MaxIds
    /\ LET l == Load
       IN IF l.found
          THEN /\ Respond(l, addEvent(l.game, req, now, nextId))
               /\ nextId' = nextId + 1
               /\ withScore' = IF req.score # Undef
                               THEN withScore \cup {nextId} ELSE withScore
          ELSE NotFound("addEvent") /\ UNCHANGED <<nextId, withScore>>
    /\ replaced' = FALSE
    /\ UNCHANGED now

(* POST /events *)
AddEvent(req) == FetchEvents(req) /\ UNCHANGED outside

(* POST /end *)
EndGame ==
    /\ nextId <= MaxIds
    /\ LET l == Load
       IN IF l.found
          THEN LET r == endGame(l.game, now, nextId)
               IN /\ Respond(l, r)
                  /\ nextId' = IF r.saved THEN nextId + 1 ELSE nextId
          ELSE NotFound("end") /\ nextId' = nextId
    /\ replaced' = FALSE
    /\ UNCHANGED <<now, withScore, outside>>

(* DELETE /events/last.  undoLastEvent answers 400 for a missing game too, *)
(* but fetch() has answered 404 before it is called.                       *)
FetchEventsLast ==
    /\ LET l == Load
       IN IF l.found THEN Respond(l, undoLastEvent(l.game)) ELSE NotFound("undo")
    /\ replaced' = FALSE
    /\ UNCHANGED <<now, nextId, withScore>>

UndoLastEvent == FetchEventsLast /\ UNCHANGED outside

(* PATCH /update, as the object serves it. *)
FetchUpdate(updates) ==
    /\ LET l == Load
       IN IF l.found THEN Respond(l, updateFields(l.game, updates))
          ELSE NotFound("update")
    /\ replaced' = FALSE
    /\ UNCHANGED <<now, nextId, withScore>>

(* PATCH /update *)
UpdateFields(updates) == FetchUpdate(updates) /\ UNCHANGED outside

(* The object is evicted and constructed again: this.game = null. *)
Restart ==
    /\ game # Undef
    /\ game' = Undef
    /\ UNCHANGED <<stored, now, nextId, last, withScore, replaced, outside>>

(* The clock moves. *)
Tick ==
    /\ now < MaxTime
    /\ now' = now + 1
    /\ UNCHANGED <<game, stored, nextId, last, withScore, replaced, outside>>

Next ==
    \/ GetGame
    \/ InitGame
    \/ \E req \in AddEventRequests : AddEvent(req)
    \/ StartGame
    \/ EndGame
    \/ UndoLastEvent
    \/ \E updates \in UpdateRequests : UpdateFields(updates)
    \/ Restart
    \/ Tick

Spec == Init /\ [][Next]_vars

----------------------------------------------------------------------------
(* Construction over storage that an earlier run of the object left: the   *)
(* games that the command sequences below produce, one command after the   *)
(* other within one reading of the clock.                                  *)

Live(type, team) ==
    [type |-> type, team |-> team, timestamp |-> Undef, score |-> Undef,
     startingOnOffense |-> Undef]

RECURSIVE Times(_, _)
Times(n, cmd) == IF n = 0 THEN <<>> ELSE <<cmd>> \o Times(n - 1, cmd)

(* start, goals, a halftime, goals, a second halftime, goals. *)
TwoHalftimes(first, second, total) ==
    <<"start">> \o Times(first, "goal") \o <<"halftime">>
        \o Times(second - first, "goal") \o <<"halftime">>
        \o Times(total - second, "goal")

Scripts ==
    { TwoHalftimes(7, 10, 13),
      TwoHalftimes(8, 8, 15),
      TwoHalftimes(6, 10, 13),
      TwoHalftimes(7, 10, 12),
      <<"start">> \o Times(7, "goal") \o <<"halftime">> \o Times(6, "goal"),
      <<"start">> \o Times(7, "goal") \o <<"halftime">> \o Times(6, "goal")
          \o <<"end", "halftime">> }

(* One scripted command, at clock reading 1. *)
RunCommand(g, cmd, id) ==
    CASE cmd = "start" -> startGame(g, 1, id)
      [] cmd = "end" -> endGame(g, 1, id)
      [] cmd = "goal" -> addEvent(g, Live(GOAL, US), 1, id)
      [] cmd = "halftime" -> addEvent(g, Live(HALFTIME, NoTeam), 1, id)

(* The commands from position n on, applied to g, up to the first one that *)
(* is refused; the ids lie above those the run hands out.                  *)
RECURSIVE RunFrom(_, _, _)
RunFrom(g, script, n) ==
    IF n > Len(script) THEN g
    ELSE LET r == RunCommand(g, script[n], MaxIds + n)
         IN IF r.resp.code # 200 THEN g
            ELSE RunFrom(r.game, script, n + 1)

RunScript(script) == RunFrom(initGame.game, script, 1)

InitLoaded ==
    /\ game = Undef
    /\ stored \in {Some(RunScript(script)) : script \in Scripts}
    /\ now = 1
    /\ nextId = MaxIds
    /\ last = Ok("none")
    /\ withScore = {}
    /\ replaced = FALSE
    /\ OutsideInit

SpecLoaded == InitLoaded /\ [][Next]_vars

----------------------------------------------------------------------------
(* storage.put() rejects.  saveGame() throws after the handler has changed *)
(* this.game, and the catch of fetch() answers 500; storage keeps what it  *)
(* held.                                                                   *)

(* A write failure that the response does not show. *)
RespondPutFailsSilently(l, r) ==
    /\ r.saved
    /\ game' = Some(r.game)
    /\ stored' = l.stored
    /\ last' = r.resp

RespondPutFails(l, r) ==
    /\ r.saved
    /\ game' = Some(r.game)
    /\ stored' = l.stored
    /\ last' = Err("fetch", 500, "Internal server error")

(* POST /init *)
InitGamePutFails ==
    /\ RespondPutFails([stored |-> stored], initGame)
    /\ replaced' = (game # Undef \/ stored # Undef)
    /\ UNCHANGED <<now, nextId, withScore, outside>>

(* POST /start *)
StartGamePutFails ==
    /\ nextId <= MaxIds
    /\ Load.found
    /\ RespondPutFails(Load, startGame(Load.game, now, nextId))
    /\ nextId' = nextId + 1
    /\ replaced' = FALSE
    /\ UNCHANGED <<now, withScore, outside>>

(* POST /events *)
AddEventPutFails(req) ==
    /\ nextId <= MaxIds
    /\ Load.found
    /\ RespondPutFails(Load, addEvent(Load.game, req, now, nextId))
    /\ nextId' = nextId + 1
    /\ withScore' = IF req.score # Undef THEN withScore \cup {nextId} ELSE withScore
    /\ replaced' = FALSE
    /\ UNCHANGED <<now, outside>>

(* POST /end *)
EndGamePutFails ==
    /\ nextId <= MaxIds
    /\ Load.found
    /\ RespondPutFails(Load, endGame(Load.game, now, nextId))
    /\ nextId' = nextId + 1
    /\ replaced' = FALSE
    /\ UNCHANGED <<now, withScore, outside>>

(* DELETE /events/last *)
UndoLastEventPutFails ==
    /\ Load.found
    /\ RespondPutFails(Load, undoLastEvent(Load.game))
    /\ replaced' = FALSE
    /\ UNCHANGED <<now, nextId, withScore, outside>>

(* PATCH /update *)
UpdateFieldsPutFails(updates) ==
    /\ Load.found
    /\ RespondPutFails(Load, updateFields(Load.game, updates))
    /\ replaced' = FALSE
    /\ UNCHANGED <<now, nextId, withScore, outside>>

(* The requests that fetch() serves after loading the game. *)
LoadingCommands == {"get", "start", "events", "end", "undo", "update"}

(* The save of cleanupHalftimeEvents rejects while fetch() loads the game  *)
(* for cmd: this.game holds the cleaned game, the handler of cmd is never  *)
(* called.                                                                 *)
CleanupPutFails(cmd) ==
    /\ game = Undef
    /\ stored # Undef
    /\ LET c == cleanupHalftimeEvents(Val(stored))
       IN /\ c.needsSave
          /\ game' = Some(c.game)
    /\ stored' = stored
    /\ last' = Err(cmd, 500, "Internal server error")
    /\ replaced' = FALSE
    /\ UNCHANGED <<now, nextId, withScore, outside>>

(* The object over storage that is empty or holds a game that was ended    *)
(* and then given a halftime, with writes that can fail.                   *)
InitPutFails ==
    /\ game = Undef
    /\ stored \in {Undef, Some(RunScript(<<"start", "end", "halftime">>))}
    /\ now = 1
    /\ nextId = MaxIds
    /\ last = Ok("none")
    /\ withScore = {}
    /\ replaced = FALSE
    /\ OutsideInit

NextPutFails ==
    \/ GetGame
    \/ InitGame
    \/ \E req \in AddEventRequests : AddEvent(req)
    \/ StartGame
    \/ EndGame
    \/ UndoLastEvent
    \/ \E updates \in UpdateRequests : UpdateFields(updates)
    \/ Restart
    \/ Tick
    \/ InitGamePutFails
    \/ StartGamePutFails
    \/ \E req \in AddEventRequests : AddEventPutFails(req)
    \/ EndGamePutFails
    \/ UndoLastEventPutFails
    \/ \E updates \in UpdateRequests : UpdateFieldsPutFails(updates)
    \/ \E cmd \in LoadingCommands : CleanupPutFails(cmd)

SpecPutFails == InitPutFails /\ [][NextPutFails]_vars

(* The object from its construction over empty storage, with appends and   *)
(* retractions whose write can fail and that the caller can send again.    *)
NextRetry ==
    \/ GetGame
    \/ InitGame
    \/ \E req \in AddEventRequests : AddEvent(req)
    \/ UndoLastEvent
    \/ Restart
    \/ Tick
    \/ \E req \in AddEventRequests : AddEventPutFails(req)
    \/ UndoLastEventPutFails

SpecRetry == Init /\ [][NextRetry]_vars

----------------------------------------------------------------------------
(* The Router over one chat.  Every game of the chat is served by the one  *)
(* object that idFromName(chatId) names; the database keeps a row per      *)
(* game.id.  A request that names a gameId without a row is answered 404   *)
(* and changes nothing.  When the object answers with an error, data.game  *)
(* is undefined, db.saveGame throws and the database keeps its rows.       *)

GameIds == 1..MaxGames

(* The bodies of POST /games/:id/events. *)
RouterRequests ==
    {Live(GOAL, US), Live(HALFTIME, NoTeam),
     [Live(GOAL, THEM) EXCEPT !.timestamp = Some(MaxTime)]}

(* POST /games *)
RouterCreateGame ==
    /\ heldId < MaxGames
    /\ FetchInit
    /\ heldId' = heldId + 1
    /\ db' = saveGame(db, heldId', Val(game'))
    /\ UNCHANGED <<flight, stats>>

(* GET /games/:id *)
RouterGetGame(gameId) ==
    /\ gameId \in DOMAIN db.games
    /\ GetGame

(* POST /games/:id/events *)
RouterAddEvent(gameId, req) ==
    /\ gameId \in DOMAIN db.games
    /\ FetchEvents(req)
    /\ db' = IF last'.code = 200 THEN saveGame(db, heldId, Val(game')) ELSE db
    /\ UNCHANGED <<heldId, flight, stats>>

(* POST /games/:id/undo *)
RouterUndoLastEvent(gameId) ==
    /\ gameId \in DOMAIN db.games
    /\ FetchEventsLast
    /\ db' = IF last'.code = 200 THEN saveGame(db, heldId, Val(game')) ELSE db
    /\ UNCHANGED <<heldId, flight, stats>>

(* PATCH /games/:id *)
RouterUpdateGame(gameId, updates) ==
    /\ gameId \in DOMAIN db.games
    /\ LET g == dbGetGame(db, gameId)
       IN db' = saveGame(db, gameId,
                         IF updates.startingOnOffense # Undef
                         THEN [g EXCEPT !.startingOnOffense = updates.startingOnOffense]
                         ELSE g)
    /\ FetchUpdate(updates)
    /\ UNCHANGED <<heldId, flight, stats>>

NextRouter ==
    \/ RouterCreateGame
    \/ \E gameId \in GameIds : RouterGetGame(gameId)
    \/ \E gameId \in GameIds : \E req \in RouterRequests : RouterAddEvent(gameId, req)
    \/ \E gameId \in GameIds : RouterUndoLastEvent(gameId)
    \/ \E gameId \in GameIds : \E updates \in UpdateRequests : RouterUpdateGame(gameId, updates)
    \/ Restart
    \/ Tick

SpecRouter == Init /\ [][NextRouter]_vars

----------------------------------------------------------------------------
(* Requests that overlap.  fetch() and addEvent run to their next await    *)
(* without interruption.  With this.game loaded, the one await before      *)
(* addEvent touches the game is `await request.json()`: other requests are *)
(* served while a call waits there.  What follows (score, status, event,   *)
(* push, sort, the call of storage.put) runs in one piece on this.game.    *)

(* The appends without a timestamp. *)
OverlapRequests == {req \in AddEventRequests : req.timestamp = Undef}

(* An addEvent that continues on the game it found when it was called. *)
resumeGameSeen(f) == f.seen

(* The game an addEvent continues on after its await: this.game. *)
resumeGame(f) == Val(game)

(* fetch() up to `await request.json()` of addEvent. *)
BeginAddEvent(req) ==
    /\ Len(flight) < MaxFlight
    /\ nextId + Len(flight) <= MaxIds
    /\ Load.found
    /\ game' = Some(Load.game)
    /\ stored' = Load.stored
    /\ flight' = Append(flight, [req |-> req, seen |-> Load.game])
    /\ UNCHANGED <<now, nextId, last, withScore, replaced, db, heldId, stats>>

(* addEvent from the await on, for the i-th waiting call. *)
ResumeAddEvent(i) ==
    /\ i \in 1..Len(flight)
    /\ LET f == flight[i]
           r == addEvent(resumeGame(f), f.req, now, nextId)
       IN /\ game' = Some(r.game)
          /\ stored' = Some(r.game)
          /\ last' = r.resp
          /\ withScore' = IF f.req.score # Undef
                          THEN withScore \cup {nextId} ELSE withScore
    /\ nextId' = nextId + 1
    /\ replaced' = FALSE
    /\ flight' = SubSeq(flight, 1, i - 1) \o SubSeq(flight, i + 1, Len(flight))
    /\ UNCHANGED <<now, db, heldId, stats>>

NextOverlap ==
    \/ InitGame
    \/ \E req \in OverlapRequests : BeginAddEvent(req)
    \/ \E i \in 1..MaxFlight : ResumeAddEvent(i)
    \/ UndoLastEvent
    \/ Tick

SpecOverlap == Init /\ [][NextOverlap]_vars

----------------------------------------------------------------------------
(* Router commands that overlap.  Each request to the router is served by  *)
(* its own invocation: addEvent of the router awaits the answer of the     *)
(* object, then awaits db.saveGame(data.game).  The object serves the      *)
(* commands one after the other; the saves of two invocations reach the    *)
(* database in either order.  A call waiting before its save is kept in    *)
(* flight with the game it was answered (seen) and the row it writes.      *)

(* POST /games/:id/events up to `await this.db.saveGame(data.game)`. *)
RouterAddEventAnswered(gameId, req) ==
    /\ gameId \in DOMAIN db.games
    /\ Len(flight) < MaxFlight
    /\ FetchEvents(req)
    /\ flight' = IF last'.code = 200
                 THEN Append(flight, [req |-> req, seen |-> Val(game'),
                                      gameId |-> heldId])
                 ELSE flight
    /\ UNCHANGED <<db, heldId, stats>>

(* db.saveGame(data.game) of the i-th waiting call, and its answer. *)
RouterAddEventSaved(i) ==
    /\ i \in 1..Len(flight)
    /\ db' = saveGame(db, flight[i].gameId, flight[i].seen)
    /\ flight' = SubSeq(flight, 1, i - 1) \o SubSeq(flight, i + 1, Len(flight))
    /\ UNCHANGED <<game, stored, now, nextId, last, withScore, replaced,
                   heldId, stats>>

NextBehind ==
    \/ RouterCreateGame
    \/ \E gameId \in GameIds : \E req \in RouterRequests :
           RouterAddEventAnswered(gameId, req)
    \/ \E i \in 1..MaxFlight : RouterAddEventSaved(i)
    \/ Tick

SpecBehind == Init /\ [][NextBehind]_vars

----------------------------------------------------------------------------
(* The statistics are functions of a game.  The games they are given here  *)
(* are those that short sequences of appendEvent requests build on a fresh *)
(* game, the n-th request served at clock reading n, and one long game.    *)
(* The events carry the message of their request.                          *)

(* addEvent, lines 473-483: the event record with its message. *)
addEventMessage(e, message) ==
    [id |-> e.id, type |-> e.type, timestamp |-> e.timestamp,
     score |-> e.score, team |-> e.team, message |-> message]

(* The n-th command c = [req, message] of a script, applied to g. *)
PlayCommand(g, c, n) ==
    LET r == addEvent(g, c.req, n, n).game
    IN [r EXCEPT !.events =
           [i \in 1..Len(r.events) |->
               IF r.events[i].id = n
               THEN addEventMessage(r.events[i], c.message)
               ELSE r.events[i]]]

RECURSIVE PlayFrom(_, _, _)
PlayFrom(g, script, n) ==
    IF n > Len(script) THEN g
    ELSE PlayFrom(PlayCommand(g, script[n], n), script, n + 1)

Play(script, offense) ==
    [PlayFrom(initGame.game, script, 1) EXCEPT !.startingOnOffense = offense]

(* The sequences over a set of at most n elements. *)
RECURSIVE SeqsUpTo(_, _)
SeqsUpTo(S, n) ==
    IF n = 0 THEN {<<>>}
    ELSE LET shorter == SeqsUpTo(S, n - 1)
         IN shorter \cup {Append(q, x) : q \in shorter, x \in S}

Silent(req) == [req |-> req, message |-> Undef]

(* Goals of either team and of none. *)
GoalCommands ==
    {Silent(Live(GOAL, US)), Silent(Live(GOAL, THEM)), Silent(Live(GOAL, NoTeam))}

LineGames ==
    {Play(script, offense) :
        script \in SeqsUpTo(GoalCommands, MaxLog), offense \in OffenseInputs}

(* Goals, timeouts of either team and a halftime. *)
TimeoutCommands ==
    GoalCommands \cup
    {Silent(Live(TIMEOUT, US)), Silent(Live(TIMEOUT, THEM)),
     Silent(Live(HALFTIME, NoTeam))}

(* A request that carries its own timestamp. *)
At(req, t) == [req EXCEPT !.timestamp = Some(t)]

(* Goals of either team, a halftime recorded as it happens and a halftime  *)
(* recorded afterwards with the time of the first event.                   *)
HalfCommands ==
    {Silent(Live(GOAL, US)), Silent(Live(GOAL, THEM)),
     Silent(Live(HALFTIME, NoTeam)), Silent(At(Live(HALFTIME, NoTeam), 1))}

HalfGames == {Play(script, Undef) : script \in SeqsUpTo(HalfCommands, MaxLog)}

(* What the reports of a goal say: nothing, the scorer, the assister and  *)
(* the scorer.                                                             *)
Said(req, message) == [req |-> req, message |-> Some(message)]

PlayerCommands ==
    {Silent(Live(GOAL, US)), Silent(Live(GOAL, THEM)),
     Said(Live(GOAL, US), <<"Jake">>), Said(Live(GOAL, US), <<"Jake", "to", "Mason">>),
     Said(Live(GOAL, US), <<"Goal", "Mason">>),
     Said(Live(GOAL, THEM), <<"Jake">>),
     Said(Live(NOTE, NoTeam), <<"Jake">>)}

PlayerGames == {Play(script, Undef) : script \in SeqsUpTo(PlayerCommands, MaxPlays)}

(* Reports of our goals that name no player: no message, a common word,    *)
(* words without a capital.                                                *)
UnnamedCommands ==
    {Silent(Live(GOAL, US)), Said(Live(GOAL, US), <<"Goal">>),
     Said(Live(GOAL, US), <<"throw", "to", "the">>)}

UnnamedGames == {Play(script, Undef) : script \in SeqsUpTo(UnnamedCommands, MaxLog)}

TimeoutGames == {Play(script, Undef) : script \in SeqsUpTo(TimeoutCommands, MaxLog)}

(* A long game that started on defense: we score the first 23 goals, then  *)
(* the opponent and we score in turn, the opponent first and last, 56      *)
(* goals in all, each appended live at its own clock reading.              *)
LongGame ==
    [status |-> NOT_STARTED,
     score |-> [us |-> 39, them |-> 17],
     events |->
         [i \in 1..56 |->
             [id |-> i, type |-> GOAL, timestamp |-> i,
              score |-> IF i <= 23 THEN [us |-> i, them |-> 0]
                        ELSE [us |-> 23 + ((i - 23) \div 2),
                              them |-> (i - 22) \div 2],
              team |-> IF i <= 23 \/ i % 2 = 1 THEN US ELSE THEM,
              message |-> Undef]],
     startedAt |-> Undef,
     finishedAt |-> Undef,
     startingOnOffense |-> Some(FALSE)]

(* A game of a season: the record of the game with its id and its          *)
(* gameDate, a day of one month given by its number (the dates are         *)
(* YYYY-MM-DD strings, which compare as their days do).                    *)
Dated(g, id, day) ==
    [f \in DOMAIN g \cup {"id", "gameDate"} |->
        IF f = "id" THEN id ELSE IF f = "gameDate" THEN Some(day) ELSE g[f]]

(* A win 1-0, a win 2-0, a loss 0-1 and a game without a goal. *)
SeasonScripts ==
    {<<Said(Live(GOAL, US), <<"Jake", "to", "Mason">>)>>,
     <<Said(Live(GOAL, US), <<"Jake", "to", "Mason">>),
       Said(Live(GOAL, US), <<"Goal", "Mason">>)>>,
     <<Said(Live(GOAL, THEM), <<"Jake">>)>>,
     <<>>}

SeasonDays == {1, 2}

(* The games of a season of n games, the i-th with id i. *)
RECURSIVE SeasonsOf(_)
SeasonsOf(n) ==
    IF n = 0 THEN {<<>>}
    ELSE {Append(season, Dated(Play(script, Undef), n, day)) :
             season \in SeasonsOf(n - 1), script \in SeasonScripts, day \in SeasonDays}

Seasons == UNION {SeasonsOf(n) : n \in 1..MaxSeason}

StatsGames ==
    LineGames \cup TimeoutGames \cup HalfGames \cup PlayerGames \cup UnnamedGames
        \cup {LongGame}

InitStats ==
    /\ game = Undef
    /\ stored = Undef
    /\ now = 1
    /\ nextId = 1
    /\ last = Ok("none")
    /\ withScore = {}
    /\ replaced = FALSE
    /\ db = EmptyDb
    /\ heldId = 0
    /\ flight = <<>>
    /\ stats \in
           {[game |-> Some(g), games |-> <<>>, of |-> "none", result |-> Undef] :
               g \in StatsGames}

(* calculateLineStats(game) *)
CalculateLineStats ==
    /\ stats' = [stats EXCEPT !.of = "lineStats",
                              !.result = calculateLineStats(Val(stats.game))]
    /\ UNCHANGED <<game, stored, now, nextId, last, withScore, replaced,
                   db, heldId, flight>>

(* StatsCalculator.calculateTimeoutEfficiency(game) *)
CalculateTimeoutEfficiency ==
    /\ stats' = [stats EXCEPT !.of = "timeoutEfficiency",
                              !.result = Some(calculateTimeoutEfficiency(Val(stats.game)))]
    /\ UNCHANGED <<game, stored, now, nextId, last, withScore, replaced,
                   db, heldId, flight>>

(* StatsCalculator.calculateHalfPerformance(game) *)
CalculateHalfPerformance ==
    /\ stats' = [stats EXCEPT !.of = "halfPerformance",
                              !.result = Some(calculateHalfPerformance(Val(stats.game)))]
    /\ UNCHANGED <<game, stored, now, nextId, last, withScore, replaced,
                   db, heldId, flight>>

(* StatsCalculator.calculateMomentum(game) *)
CalculateMomentum ==
    /\ stats' = [stats EXCEPT !.of = "momentum",
                              !.result = Some(calculateMomentum(Val(stats.game)))]
    /\ UNCHANGED <<game, stored, now, nextId, last, withScore, replaced,
                   db, heldId, flight>>

(* StatsCalculator.calculatePlayerStats(game) *)
CalculatePlayerStats ==
    /\ stats' = [stats EXCEPT !.of = "playerStats",
                              !.result = Some(calculatePlayerStats(Val(stats.game)))]
    /\ UNCHANGED <<game, stored, now, nextId, last, withScore, replaced,
                   db, heldId, flight>>

(* StatsCalculator.calculateCloseGamePerformance(game) *)
CalculateCloseGamePerformance ==
    /\ stats' = [stats EXCEPT !.of = "closeGamePerformance",
                              !.result = Some(calculateCloseGamePerformance(Val(stats.game)))]
    /\ UNCHANGED <<game, stored, now, nextId, last, withScore, replaced,
                   db, heldId, flight>>

NextStats ==
    \/ CalculateCloseGamePerformance
    \/ CalculatePlayerStats
    \/ CalculateMomentum
    \/ CalculateLineStats
    \/ CalculateTimeoutEfficiency
    \/ CalculateHalfPerformance

SpecStats == InitStats /\ [][NextStats]_vars

----------------------------------------------------------------------------
(* The statistics over several games are functions of an array of games;   *)
(* the arrays here are the seasons.                                        *)
InitSeason ==
    /\ game = Undef
    /\ stored = Undef
    /\ now = 1
    /\ nextId = 1
    /\ last = Ok("none")
    /\ withScore = {}
    /\ replaced = FALSE
    /\ db = EmptyDb
    /\ heldId = 0
    /\ flight = <<>>
    /\ stats \in
           {[game |-> Undef, games |-> season, of |-> "none", result |-> Undef] :
               season \in Seasons}

(* StatsCalculator.aggregatePlayerStats(games) *)
AggregatePlayerStats ==
    /\ stats' = [stats EXCEPT !.of = "aggregatedPlayerStats",
                              !.result = Some(aggregatePlayerStats(stats.games))]
    /\ UNCHANGED <<game, stored, now, nextId, last, withScore, replaced,
                   db, heldId, flight>>

(* StatsCalculator.calculateTeamTrends(games) *)
CalculateTeamTrends ==
    /\ stats' = [stats EXCEPT !.of = "teamTrends",
                              !.result = Some(calculateTeamTrends(stats.games))]
    /\ UNCHANGED <<game, stored, now, nextId, last, withScore, replaced,
                   db, heldId, flight>>

NextSeason ==
    \/ AggregatePlayerStats
    \/ CalculateTeamTrends

SpecSeason == InitSeason /\ [][NextSeason]_vars

----------------------------------------------------------------------------
(* What the claims speak of. *)

(* The games the object holds: the one in memory and the one in storage. *)
HeldGames == {Val(o) : o \in {game, stored} \ {Undef}}

(* The events of a log that satisfy a test, as the set of positions. *)
GoalsOf(events, side, upTo) ==
    {i \in 1..upTo : /\ events[i].type = GOAL
                     /\ events[i].team = side
                     /\ events[i].id \notin withScore}

IsSorted(events) ==
    \A i \in 1..Len(events) - 1 : events[i].timestamp <= events[i + 1].timestamp

(* Replaying a log from scratch: every event appended again, live, to a    *)
(* fresh game.                                                             *)
RECURSIVE Replay(_)
Replay(events) ==
    IF events = <<>> THEN initGame.game
    ELSE LET e == events[Len(events)]
         IN addEvent(Replay(SubSeq(events, 1, Len(events) - 1)),
                     Live(e.type, e.team), e.timestamp, e.id).game

(* The position of a status in NOT_STARTED -> ... -> FINISHED. *)
Rank(status) ==
    CASE status = NOT_STARTED -> 0
      [] status = FIRST_HALF -> 1
      [] status = ST_HALFTIME -> 2
      [] status = SECOND_HALF -> 3
      [] status = FINISHED -> 4

----------------------------------------------------------------------------
(* C1: in every reachable game state, score[side] is the number of GOAL    *)
(* events of that side in the log, not counting the GOAL events that were  *)
(* appended with a score override.                                         *)
C1_ScoreIsLiveGoalCount ==
    \A g \in HeldGames : \A side \in TeamSide :
        g.score[side] = Cardinality(GoalsOf(g.events, side, Len(g.events)))

(* C2: after a successful retractLast, score and status are those of the   *)
(* remaining log replayed from a fresh game.                               *)
C2_UndoEqualsReplay ==
    [][(UndoLastEvent /\ last'.code = 200) =>
          LET g == Val(game')
              r == Replay(g.events)
          IN g.score = r.score /\ g.status = r.status]_vars

(* C3: appendEvent with a caller-supplied timestamp leaves status,         *)
(* startedAt and finishedAt as they were, whatever the event type.         *)
C3_BackfillKeepsStatusAndClock ==
    [][\A req \in AddEventRequests :
          (req.timestamp # Undef /\ Load.found /\ AddEvent(req)) =>
              /\ Val(game').status = Load.game.status
              /\ Val(game').startedAt = Load.game.startedAt
              /\ Val(game').finishedAt = Load.game.finishedAt]_vars

(* C4: no start, appendEvent or end takes the status backward along        *)
(* NOT_STARTED -> FIRST_HALF -> HALFTIME -> SECOND_HALF -> FINISHED.       *)
C4_StatusNeverGoesBack ==
    [][(/\ Load.found
        /\ \/ StartGame
           \/ EndGame
           \/ \E req \in AddEventRequests : AddEvent(req)) =>
          Rank(Val(game').status) >= Rank(Load.game.status)]_vars

(* C5: after every command the log is sorted by non-decreasing timestamp. *)
C5_LogSorted == \A g \in HeldGames : IsSorted(g.events)

C7_GoalScoring ==
    [][nextId' = nextId + 1 =>
          \A req \in GoalRequests :
              (/\ \E i \in 1..Len(Val(game').events) :
                      LET e == Val(game').events[i]
                      IN e.id = nextId /\ e.type = GOAL /\ e.team = req.team
               /\ Load.found
               /\ AddEvent(req)) =>
                  LET before == Load.game.score
                      after == Val(game').score
                      other == IF req.team = US THEN THEM ELSE US
                      appended == {i \in 1..Len(Val(game').events) :
                                       Val(game').events[i].id = nextId}
                  IN /\ Cardinality(appended) = 1
                     /\ IF req.score = Undef
                        THEN /\ after[req.team] = before[req.team] + 1
                             /\ after[other] = before[other]
                        ELSE /\ after = before
                             /\ \A i \in appended :
                                    Val(game').events[i].score = Val(req.score)]_vars

(* A log that holds a goal counted into the score next to a goal appended  *)
(* with an override and left out of it.                                    *)
C7_Witness ==
    \E g \in HeldGames :
        /\ \E i \in 1..Len(g.events) :
               /\ g.events[i].type = GOAL
               /\ g.events[i].id \in withScore
               /\ g.events[i].score = [us |-> 1, them |-> 0]
        /\ \E i \in 1..Len(g.events) :
               /\ g.events[i].type = GOAL
               /\ g.events[i].team = THEM
               /\ g.events[i].id \notin withScore
        /\ g.score = [us |-> 0, them |-> 1]

----------------------------------------------------------------------------
(* The game the object answers for, and its log. *)
Held == IF game # Undef THEN game ELSE stored

Log == IF Held = Undef THEN <<>> ELSE Val(Held).events

Range(seq) == {seq[i] : i \in 1..Len(seq)}

HalftimeCount(events) == Cardinality({i \in 1..Len(events) : events[i].type = HALFTIME})

(* C8, as claimed: an event stays in the log, every field unchanged, until *)
(* retractLast removes it; no other command or internal step alters or     *)
(* removes it.  An init replaces the whole game and is not held against    *)
(* the claim here.                                                         *)
C8_OnlyRetractRemoves ==
    [][(~UndoLastEvent /\ ~InitGame) => Range(Log) \subseteq Range(Log')]_vars

(* C8, amended: an event stays in the log, every field unchanged, until it *)
(* is removed by retractLast (as the last event of the loaded log) or, if  *)
(* it is a HALFTIME event, by the cleanup that runs when the game is       *)
(* loaded from storage; an init replaces the game and its log as a whole.  *)
C8_RemovedOnlyByRetractOrCleanup ==
    [][~InitGame =>
          \A e \in Range(Log) :
              \/ e \in Range(Log')
              \/ /\ UndoLastEvent
                 /\ Load.found
                 /\ Load.game.events # <<>>
                 /\ e = Load.game.events[Len(Load.game.events)]
              \/ /\ e.type = HALFTIME
                 /\ game = Undef
                 /\ game' # Undef]_vars

(* The cleanup has run on a stored log of 13 goals, a start and two        *)
(* halftimes: one halftime is gone, the 14 other events are all there, and *)
(* an event appended since is in the log with them.                        *)
C8_Witness ==
    /\ game # Undef
    /\ Len(Val(game).events) = 16
    /\ HalftimeCount(Val(game).events) = 1
    /\ Val(game).score = [us |-> 13, them |-> 0]
    /\ \E i \in 1..16 : Val(game).events[i].id = MaxIds

(* C9, as claimed: init on a key that holds a game fails and leaves the    *)
(* game's log, score and status as they were.                              *)
C9_ReinitRejected ==
    [][(InitGame /\ Held # Undef) =>
          /\ last'.code # 200
          /\ Held' # Undef
          /\ Val(Held').events = Val(Held).events
          /\ Val(Held').score = Val(Held).score
          /\ Val(Held').status = Val(Held).status]_vars

(* C9, amended: init on a key that holds a game succeeds and replaces the  *)
(* game, in memory and in storage, by a fresh one: NOT_STARTED, 0-0, an    *)
(* empty log, no clock fields, no possession flag.  Nothing is merged.     *)
C9_ReinitReplaces ==
    [][(InitGame /\ Held # Undef) =>
          /\ last'.code = 200
          /\ game' # Undef
          /\ stored' = game'
          /\ Val(game').status = NOT_STARTED
          /\ Val(game').score = [us |-> 0, them |-> 0]
          /\ Val(game').events = <<>>
          /\ Val(game').startedAt = Undef
          /\ Val(game').finishedAt = Undef
          /\ Val(game').startingOnOffense = Undef]_vars

(* An init has just replaced a game to which events had been appended. *)
C9_Witness ==
    /\ replaced
    /\ nextId > 1
    /\ last.code = 200
    /\ game # Undef
    /\ Val(game).events = <<>>

(* C10: start succeeds only from NOT_STARTED, where it sets FIRST_HALF and *)
(* startedAt and appends exactly one GAME_START event; from any other      *)
(* status it fails with "Game already started" and changes nothing.        *)
C10_StartOnlyFromNotStarted ==
    [][(StartGame /\ Load.found) =>
          LET pre == Load.game
              post == Val(game')
              n == Len(pre.events)
          IN IF pre.status = NOT_STARTED
             THEN /\ last'.code = 200
                  /\ post.status = FIRST_HALF
                  /\ post.startedAt = Some(now)
                  /\ post.score = pre.score
                  /\ Len(post.events) = n + 1
                  /\ SubSeq(post.events, 1, n) = pre.events
                  /\ post.events[n + 1].type = GAME_START
                  /\ post.events[n + 1].timestamp = now
                  /\ stored' = game'
             ELSE /\ last'.code = 400
                  /\ last'.error = "Game already started"
                  /\ post = pre
                  /\ stored' = Load.stored]_vars

(* A start has just been refused on a game that is in its first half and   *)
(* holds its GAME_START event.                                             *)
C10_Witness ==
    /\ last.error = "Game already started"
    /\ game # Undef
    /\ Val(game).status = FIRST_HALF
    /\ Val(game).startedAt # Undef
    /\ \E i \in 1..Len(Val(game).events) : Val(game).events[i].type = GAME_START

----------------------------------------------------------------------------
(* The goals of one side in a log. *)
SideGoals(events, side) ==
    Cardinality({i \in 1..Len(events) :
                     events[i].type = GOAL /\ events[i].team = side})

(* C11: retractLast on a game whose log is empty fails with "No events to  *)
(* undo" and leaves score, status and log (the whole game, in memory and   *)
(* in storage) unchanged.                                                  *)
C11_UndoEmptyLogFails ==
    [][(UndoLastEvent /\ Load.found /\ Load.game.events = <<>>) =>
          /\ last'.code = 400
          /\ last'.error = "No events to undo"
          /\ Val(game') = Load.game
          /\ stored' = Load.stored]_vars

(* A retraction has just been refused on a game with an empty log, after   *)
(* events had been appended on this object.                                *)
C11_Witness ==
    /\ last.error = "No events to undo"
    /\ game # Undef
    /\ Val(game).events = <<>>
    /\ nextId > 1

(* C12: a successful retractLast drops the last event of the log, sets the *)
(* score to the per-side count of the GOAL events that remain, and sets    *)
(* the status from the type of the new last event: HALFTIME gives          *)
(* HALFTIME, SECOND_HALF_START gives SECOND_HALF, GAME_START gives         *)
(* FIRST_HALF; an empty remaining log gives NOT_STARTED and no startedAt.  *)
C12_UndoRecomputes ==
    [][(UndoLastEvent /\ Load.found /\ Load.game.events # <<>>) =>
          LET pre == Load.game
              post == Val(game')
              remaining == SubSeq(pre.events, 1, Len(pre.events) - 1)
          IN /\ last'.code = 200
             /\ post.events = remaining
             /\ post.score = [us |-> SideGoals(remaining, US),
                              them |-> SideGoals(remaining, THEM)]
             /\ IF remaining = <<>>
                THEN post.status = NOT_STARTED /\ post.startedAt = Undef
                ELSE LET type == remaining[Len(remaining)].type
                     IN /\ type = HALFTIME => post.status = ST_HALFTIME
                        /\ type = SECOND_HALF_START => post.status = SECOND_HALF
                        /\ type = GAME_START => post.status = FIRST_HALF
             /\ stored' = game']_vars

(* The second-half start that followed a halftime has been retracted and   *)
(* the status is back at HALFTIME.                                         *)
C12_Witness ==
    /\ last.code = 200
    /\ nextId = 3
    /\ game # Undef
    /\ Len(Val(game).events) = 1
    /\ Val(game).events[1].id = 1
    /\ Val(game).events[1].type = HALFTIME
    /\ Val(game).status = ST_HALFTIME

(* C13: after a successful retractLast finishedAt is set only if a         *)
(* GAME_END event remains in the log, and startedAt is set only if the     *)
(* remaining log is not empty.                                             *)
C13_UndoClockFollowsLog ==
    [][(UndoLastEvent /\ Load.found /\ Load.game.events # <<>>) =>
          LET post == Val(game')
          IN /\ post.finishedAt # Undef =>
                    \E i \in 1..Len(post.events) : post.events[i].type = GAME_END
             /\ post.startedAt # Undef => post.events # <<>>]_vars

(* C14: a successful retractLast removes exactly one event, and it is one  *)
(* with the greatest timestamp in the log.                                 *)
C14_UndoRemovesLatest ==
    [][(UndoLastEvent /\ Load.found /\ Load.game.events # <<>>) =>
          LET pre == Load.game.events
              removed == Range(pre) \ Range(Val(game').events)
          IN /\ Cardinality(removed) = 1
             /\ \A e \in removed : \A f \in Range(pre) :
                    e.timestamp >= f.timestamp]_vars

(* C15: appendEvent of a GOAL that names no team is refused with a 400     *)
(* response and leaves the log and the score unchanged.                    *)
C15_GoalWithoutTeamRejected ==
    [][\A req \in AddEventRequests :
          (req.type = GOAL /\ req.team = NoTeam /\ Load.found /\ AddEvent(req)) =>
              /\ last'.code = 400
              /\ Val(game').events = Load.game.events
              /\ Val(game').score = Load.game.score]_vars

----------------------------------------------------------------------------
Reported == last'.code = 500 /\ last'.error = "Internal server error"

(* The write of a command's own save fails: the failure is reported, the   *)
(* game in memory is the one the handler leaves, storage keeps its game.   *)
OwnSaveFails ==
    /\ InitGamePutFails => Reported /\ game' = Some(initGame.game) /\ stored' = stored
    /\ StartGamePutFails =>
           /\ Reported
           /\ game' = Some(startGame(Load.game, now, nextId).game)
           /\ stored' = Load.stored
    /\ nextId' = nextId + 1 =>
           \A req \in AddEventRequests : AddEventPutFails(req) =>
               /\ Reported
               /\ game' = Some(addEvent(Load.game, req, now, nextId).game)
               /\ stored' = Load.stored
    /\ EndGamePutFails =>
           /\ Reported
           /\ game' = Some(endGame(Load.game, now, nextId).game)
           /\ stored' = Load.stored
    /\ UndoLastEventPutFails =>
           /\ Reported
           /\ game' = Some(undoLastEvent(Load.game).game)
           /\ stored' = Load.stored
    /\ \A updates \in UpdateRequests : UpdateFieldsPutFails(updates) =>
           /\ Reported
           /\ game' = Some(updateFields(Load.game, updates).game)
           /\ stored' = Load.stored

(* C17, as claimed: when a storage write fails during a command, the       *)
(* failure is reported to the caller and the game in memory shows the      *)
(* effect of that command exactly once; here for a retractLast whose       *)
(* request is the one that loads the game.                                 *)
C17_PutFailureKeepsEffect ==
    [][/\ OwnSaveFails
       /\ CleanupPutFails("undo") =>
              /\ Reported
              /\ game' = Some(undoLastEvent(
                                  cleanupHalftimeEvents(Val(stored)).game).game)]_vars

(* C17, amended: when the save of a command's handler fails, the failure   *)
(* is reported and the game in memory shows the effect of the command      *)
(* exactly once; when the save of the halftime cleanup fails while fetch() *)
(* loads the game, the failure is reported, the handler is not run and the *)
(* game in memory is the cleaned game without the command's effect.        *)
(* Storage keeps its game in both cases.                                   *)
C17_PutFailureReported ==
    [][/\ OwnSaveFails
       /\ \A cmd \in LoadingCommands : CleanupPutFails(cmd) =>
              /\ Reported
              /\ game' = Some(cleanupHalftimeEvents(Val(stored)).game)
              /\ stored' = stored]_vars

(* The write of a command that appended an event has failed: the answer is *)
(* 500, the event is in the log in memory and not in the log in storage.   *)
C17_Witness ==
    /\ last.code = 500
    /\ game # Undef
    /\ stored # Undef
    /\ \E e \in Range(Val(game).events) :
           /\ e.id = MaxIds
           /\ e \notin Range(Val(stored).events)
    /\ Len(Val(game).events) = Len(Val(stored).events) + 1

----------------------------------------------------------------------------
(* What C18 counts as the state of a game. *)
View(g) ==
    [events |-> g.events, score |-> g.score, status |-> g.status,
     startingOnOffense |-> g.startingOnOffense]

(* A command of the router that names gameId. *)
Addressed(gameId) ==
    \/ \E req \in RouterRequests : RouterAddEvent(gameId, req)
    \/ RouterUndoLastEvent(gameId)
    \/ \E updates \in UpdateRequests : RouterUpdateGame(gameId, updates)

(* C18: a command addressed to one game changes the log, score, status and *)
(* possession flag of no other game, neither of the game the object holds  *)
(* nor of a game in the database.                                          *)
C18_OtherGamesUntouched ==
    [][\A gameId \in GameIds : Addressed(gameId) =>
          /\ \A other \in DOMAIN db.games \ {gameId} :
                 View(dbGetGame(db', other)) = View(dbGetGame(db, other))
          /\ heldId # gameId => View(Val(Held')) = View(Val(Held))]_vars

(* C19: an appendEvent that overlaps with other commands takes effect in   *)
(* one step, the step of a sequential appendEvent on the game as the       *)
(* commands before it left it: that step keeps every event of the log,     *)
(* adds its own one, and leaves the score as the sequential command does,  *)
(* so two overlapping appends end as one of their two sequential orders.   *)
C19_OverlapIsSequential ==
    [][\A i \in 1..Len(flight) : ResumeAddEvent(i) =>
          /\ FetchEvents(flight[i].req)
          /\ Range(Val(game).events) \subseteq Range(Val(game').events)
          /\ Len(Val(game').events) = Len(Val(game).events) + 1
          /\ \E e \in Range(Val(game').events) : e.id = nextId]_vars

(* One of two overlapping appends has taken effect while the other, which  *)
(* was called on the empty log, still waits.                               *)
C19_Witness ==
    /\ game # Undef
    /\ Len(flight) = 1
    /\ flight[1].seen.events = <<>>
    /\ Len(Val(game).events) = 1
    /\ Val(game).events[1].id = 1
    /\ Val(game).events[1].type = GOAL
    /\ Val(game).score = [us |-> 1, them |-> 0]
    /\ stored = game

(* C20: after a command of the object and its write-behind have both       *)
(* succeeded, the game read back from the database has the score, the      *)
(* status and the ordered log of the object's game.                        *)
C20_DirectoryMatchesActor ==
    [][(/\ last'.code = 200
        /\ \/ RouterCreateGame
           \/ \E gameId \in GameIds : \E req \in RouterRequests :
                  RouterAddEvent(gameId, req)
           \/ \E gameId \in GameIds : RouterUndoLastEvent(gameId)) =>
          LET d == dbGetGame(db', heldId')
              a == Val(game')
          IN /\ d.score = a.score
             /\ d.status = a.status
             /\ d.events = a.events]_vars

----------------------------------------------------------------------------
(* C21: end succeeds from every status other than FINISHED, where it sets  *)
(* FINISHED and finishedAt and appends exactly one GAME_END event; on a     *)
(* FINISHED game it fails with "Game already finished" and changes         *)
(* nothing.  The status is that of the game as fetch() has loaded it.      *)
C21_EndOnlyBeforeFinished ==
    [][(EndGame /\ Load.found) =>
          LET pre == Load.game
              post == Val(game')
              n == Len(pre.events)
          IN IF pre.status # FINISHED
             THEN /\ last'.code = 200
                  /\ post.status = FINISHED
                  /\ post.finishedAt = Some(now)
                  /\ post.score = pre.score
                  /\ post.startedAt = pre.startedAt
                  /\ Len(post.events) = n + 1
                  /\ SubSeq(post.events, 1, n) = pre.events
                  /\ post.events[n + 1].type = GAME_END
                  /\ post.events[n + 1].id = nextId
                  /\ stored' = game'
             ELSE /\ last'.code = 400
                  /\ last'.error = "Game already finished"
                  /\ post = pre
                  /\ stored' = Load.stored]_vars

(* An end has just been refused on a finished game whose log holds the one *)
(* GAME_END event that finished it.                                        *)
C21_Witness ==
    /\ last.error = "Game already finished"
    /\ game # Undef
    /\ Val(game).status = FINISHED
    /\ Val(game).finishedAt # Undef
    /\ Cardinality({i \in 1..Len(Val(game).events) :
                        Val(game).events[i].type = GAME_END}) = 1

----------------------------------------------------------------------------
(* The possession flag of the game the object answers for. *)
Possession == IF Held = Undef THEN Undef ELSE Val(Held).startingOnOffense

(* The requests of POST /events that carry the possession flag, on a       *)
(* GAME_START event (live or backfilled) and on an event of another type,  *)
(* next to requests that do not carry it.                                  *)
PossessionRequests ==
    {[type |-> GAME_START, team |-> NoTeam, timestamp |-> ts, score |-> Undef,
      startingOnOffense |-> so] :
        ts \in {Undef, Some(MaxTime)}, so \in OffenseInputs}
    \cup
    {[type |-> ty, team |-> NoTeam, timestamp |-> Undef, score |-> Undef,
      startingOnOffense |-> so] :
        ty \in {HALFTIME, NOTE}, so \in {Undef, Some(FALSE)}}
    \cup
    {[type |-> GOAL, team |-> US, timestamp |-> Undef, score |-> Undef,
      startingOnOffense |-> Some(TRUE)]}

NextPossession ==
    \/ GetGame
    \/ InitGame
    \/ \E req \in PossessionRequests : AddEvent(req)
    \/ StartGame
    \/ EndGame
    \/ UndoLastEvent
    \/ \E updates \in UpdateRequests : UpdateFields(updates)
    \/ Restart
    \/ Tick

SpecPossession == Init /\ [][NextPossession]_vars

(* C22: startingOnOffense is unknown after init and changes only when a    *)
(* GAME_START event that carries the flag or a patch that carries it       *)
(* supplies a value, which it then holds (last write wins); a patch leaves *)
(* log, score, status and the clock fields as they were.                   *)
C22_PossessionLastWriteWins ==
    [][/\ InitGame => Possession' = Undef
       /\ \A updates \in UpdateRequests :
              (UpdateFields(updates) /\ Load.found) =>
                  /\ last'.code = 200
                  /\ Possession' = IF updates.startingOnOffense # Undef
                                   THEN updates.startingOnOffense
                                   ELSE Load.game.startingOnOffense
                  /\ Val(game') =
                         [Load.game EXCEPT !.startingOnOffense = Possession']
                  /\ stored' = game'
       /\ \A req \in PossessionRequests : (Load.found /\ AddEvent(req)) =>
              Possession' = IF /\ req.type = GAME_START
                               /\ req.startingOnOffense # Undef
                            THEN req.startingOnOffense
                            ELSE Load.game.startingOnOffense
       /\ (GetGame \/ StartGame \/ EndGame \/ UndoLastEvent \/ Restart \/ Tick) =>
              Possession' = Possession]_vars

(* A patch has set the flag to defense on a game whose one event is a goal *)
(* that carried the flag for offense: the game was never started, the      *)
(* goal's flag was not taken, and the patch left log, score and status.    *)
C22_Witness ==
    /\ last.code = 200
    /\ game # Undef
    /\ stored = game
    /\ Val(game).startingOnOffense = Some(FALSE)
    /\ Val(game).status = NOT_STARTED
    /\ Len(Val(game).events) = 1
    /\ Val(game).events[1].type = GOAL
    /\ Val(game).score = [us |-> 1, them |-> 0]
    /\ nextId = 2

----------------------------------------------------------------------------
(* The goals of the game handed to the statistics, in log order. *)
StatsGoals == SelectSeq(Val(stats.game).events, IsGoal)

(* The fold of C23: we are on offense for the first goal when the game     *)
(* started on offense, and for a later goal exactly when the opponent      *)
(* scored the goal before it.                                              *)
OnOffenseAt(goals, i, start) == IF i = 1 THEN start ELSE goals[i - 1].team = THEM

(* C23: for a known startingOnOffense, calculateLineStats is the fold over *)
(* the GOAL events in log order that counts a goal as an O-line point (a   *)
(* hold if ours) when we are on offense and as a D-line point (a break if  *)
(* ours) otherwise, and then has us on offense exactly when the opponent   *)
(* scored.                                                                 *)
C23_LineStatsIsPossessionFold ==
    (stats.of = "lineStats" /\ Val(stats.game).startingOnOffense # Undef) =>
        LET goals == StatsGoals
            start == Val(Val(stats.game).startingOnOffense)
            oLine == {i \in 1..Len(goals) : OnOffenseAt(goals, i, start)}
            dLine == {i \in 1..Len(goals) : ~OnOffenseAt(goals, i, start)}
            Ours(points) == {i \in points : goals[i].team = US}
        IN /\ stats.result # Undef
           /\ Val(stats.result).oLinePoints = Cardinality(oLine)
           /\ Val(stats.result).oLineHolds = Cardinality(Ours(oLine))
           /\ Val(stats.result).dLinePoints = Cardinality(dLine)
           /\ Val(stats.result).dLineBreaks = Cardinality(Ours(dLine))

(* C24: calculateLineStats returns null, and no LineStats of zeros, when   *)
(* startingOnOffense is unknown, whatever the log holds, and a LineStats   *)
(* value when it is known.                                                 *)
C24_LineStatsUnavailable ==
    stats.of = "lineStats" =>
        IF Val(stats.game).startingOnOffense = Undef
        THEN stats.result = Undef
        ELSE /\ stats.result # Undef
             /\ DOMAIN Val(stats.result) = DOMAIN ZeroLineStats
             /\ \A field \in DOMAIN ZeroLineStats : Val(stats.result)[field] \in Nat

(* The line statistics of a game with goals and no known possession have   *)
(* been asked for, and none came back.                                     *)
C24_Witness ==
    /\ stats.of = "lineStats"
    /\ Val(stats.game).startingOnOffense = Undef
    /\ Len(StatsGoals) = 3
    /\ Val(stats.game).score = [us |-> 2, them |-> 1]
    /\ stats.result = Undef

----------------------------------------------------------------------------
(* 100 * part / whole rounded to the nearest integer, halves up; 0 for a   *)
(* whole of 0.                                                             *)
RoundedPercent(part, whole) ==
    IF whole = 0 THEN 0 ELSE (200 * part + whole) \div (2 * whole)

(* C25: each percentage of a LineStats is 100 * numerator / denominator    *)
(* rounded to the nearest integer with halves rounded up, 0 when the       *)
(* denominator is 0, and lies between 0 and 100.                           *)
C25_PercentagesRoundHalfUp ==
    (stats.of = "lineStats" /\ stats.result # Undef) =>
        LET r == Val(stats.result)
        IN /\ r.oLineHoldPercentage = RoundedPercent(r.oLineHolds, r.oLinePoints)
           /\ r.dLineBreakPercentage = RoundedPercent(r.dLineBreaks, r.dLinePoints)
           /\ r.oLineHoldPercentage \in 0..100
           /\ r.dLineBreakPercentage \in 0..100

----------------------------------------------------------------------------
(* The log handed to the statistics. *)
StatsLog == Val(stats.game).events

(* The positions of our timeouts in the log. *)
OurTimeouts == {i \in 1..Len(StatsLog) : StatsLog[i].type = TIMEOUT /\ StatsLog[i].team = US}

(* Our timeouts whose very next goal in the log is a goal of this team. *)
FollowedBy(team) ==
    {i \in OurTimeouts :
        \E j \in (i + 1)..Len(StatsLog) :
            /\ StatsLog[j].type = GOAL
            /\ StatsLog[j].team = team
            /\ \A k \in (i + 1)..(j - 1) : StatsLog[k].type # GOAL}

----------------------------------------------------------------------------
(* The goals of a team among the positions of the log. *)
LogGoalsOf(team, positions) ==
    Cardinality({i \in positions \cap (1..Len(StatsLog)) :
                    StatsLog[i].type = GOAL /\ StatsLog[i].team = team})

(* C27: with a HALFTIME event in the log, the first-half score is the      *)
(* number of goals each side scored before that event and the second-half  *)
(* score the number each side scored after it, the two adding up to the    *)
(* final score; with no HALFTIME event the final score is all first half   *)
(* and the second half is 0-0.                                             *)
C27_HalfSplit ==
    stats.of = "halfPerformance" =>
        LET r == Val(stats.result)
            h == HalftimeIndex(StatsLog)
            final == Val(stats.game).score
        IN /\ r.firstHalf.ourScore + r.secondHalf.ourScore = final.us
           /\ r.firstHalf.theirScore + r.secondHalf.theirScore = final.them
           /\ IF h > 0
              THEN /\ r.firstHalf.ourScore = LogGoalsOf(US, 1..(h - 1))
                   /\ r.firstHalf.theirScore = LogGoalsOf(THEM, 1..(h - 1))
                   /\ r.secondHalf.ourScore = LogGoalsOf(US, (h + 1)..Len(StatsLog))
                   /\ r.secondHalf.theirScore = LogGoalsOf(THEM, (h + 1)..Len(StatsLog))
              ELSE /\ r.firstHalf.ourScore = final.us
                   /\ r.firstHalf.theirScore = final.them
                   /\ r.secondHalf.ourScore = 0
                   /\ r.secondHalf.theirScore = 0

----------------------------------------------------------------------------
(* Who leads after the goal at a position of the log. *)
LeaderAt(i) == Leader(StatsLog[i].score.us - StatsLog[i].score.them)

(* The goals after which a team leads, the last team to have led before    *)
(* being the other one.                                                    *)
LeadPasses ==
    {i \in 1..Len(StatsLog) :
        /\ StatsLog[i].type = GOAL
        /\ LeaderAt(i) # "tied"
        /\ \E j \in 1..(i - 1) :
               /\ StatsLog[j].type = GOAL
               /\ LeaderAt(j) # "tied"
               /\ LeaderAt(j) # LeaderAt(i)
               /\ \A k \in (j + 1)..(i - 1) :
                      StatsLog[k].type = GOAL => LeaderAt(k) = "tied"}

(* C30: leadChanges is the number of times the lead passed from one team   *)
(* to the other over the GOAL events taken in log order.                   *)
C30_LeadChanges ==
    stats.of = "momentum" =>
        Val(stats.result).leadChanges = Cardinality(LeadPasses)

----------------------------------------------------------------------------
(* The completed points: the goals of a team that were reported with a     *)
(* message.                                                                *)
PointPositions ==
    {i \in 1..Len(StatsLog) :
        /\ StatsLog[i].type = GOAL
        /\ StatsLog[i].team \in {US, THEM}
        /\ ~NoMessage(StatsLog[i])}

(* The players attributed on the point that the goal at position i ends:   *)
(* those named in the messages since the point before it.                  *)
AttributedOn(i) ==
    UNION {SeqRange(extractPlayerNames(Val(StatsLog[j].message))) :
              j \in {k \in 1..i :
                        /\ ~NoMessage(StatsLog[k])
                        /\ \A q \in PointPositions : q < i => q < k}}

(* The points of a player that a team scored. *)
PointsOf(name, team) ==
    Cardinality({i \in PointPositions :
                    name \in AttributedOn(i) /\ StatsLog[i].team = team})

(* C28: a player's plusMinus is the sum, over the completed points on      *)
(* which the player was attributed, of +1 for a point our team scored and  *)
(* -1 for a point the opponent scored.                                     *)
C28_PlusMinus ==
    stats.of = "playerStats" =>
        \A i \in 1..Len(Val(stats.result)) :
            LET player == Val(stats.result)[i]
            IN player.plusMinus = PointsOf(player.name, US) - PointsOf(player.name, THEM)

(* C29: pointsPlayed is goals + assists + half of the touches beyond those *)
(* goals and assists (the half rounded either way), capped at the points   *)
(* played in the game, our score plus the opponent's.                      *)
C29_PointsPlayed ==
    stats.of = "playerStats" =>
        \A i \in 1..Len(Val(stats.result)) :
            LET player == Val(stats.result)[i]
                final == Val(stats.game).score
                credited == player.goals + player.assists
                additional == player.touches - credited
                cap == final.us + final.them
                Capped(n) == IF n <= cap THEN n ELSE cap
            IN \/ player.pointsPlayed = Capped(credited + (additional \div 2))
               \/ player.pointsPlayed = Capped(credited + ((additional + 1) \div 2))

----------------------------------------------------------------------------
(* C37: in every reachable game state, status is NOT_STARTED exactly when  *)
(* the event log is empty, and in that case the score is 0-0 and startedAt *)
(* is unset.                                                               *)
C37_NotStartedIffEmptyLog ==
    \A g \in HeldGames :
        /\ (g.status = NOT_STARTED) <=> (g.events = <<>>)
        /\ g.events = <<>> => (g.score = ZeroScore /\ g.startedAt = Undef)

(* C38: once status is FINISHED, no appendEvent command changes the score. *)
C38_FinishedScoreFrozen ==
    [][nextId' = nextId + 1 =>
          \A req \in AddEventRequests :
              (Load.found /\ Load.game.status = FINISHED /\ AddEvent(req)) =>
                  Val(game').score = Load.game.score]_vars

----------------------------------------------------------------------------
(* The events of a log at a set of positions, in the order of the log. *)
RECURSIVE AtPositions(_, _, _)
AtPositions(events, positions, from) ==
    IF from > Len(events) THEN <<>>
    ELSE IF from \in positions
    THEN <<events[from]>> \o AtPositions(events, positions, from + 1)
    ELSE AtPositions(events, positions, from + 1)

HalftimePositions(g) == {i \in 1..Len(g.events) : g.events[i].type = HALFTIME}

(* 7 for a game to 13, 8 for a game to 15, 0 for any other score. *)
HalfThreshold(g) ==
    LET larger == Max(g.score.us, g.score.them)
    IN IF larger = 15 THEN 8 ELSE IF larger = 13 THEN 7 ELSE 0

(* The HALFTIME events whose snapshot has a side at the threshold. *)
CorrectHalftimes(g) ==
    {i \in HalftimePositions(g) :
        \/ g.events[i].score.us = HalfThreshold(g)
        \/ g.events[i].score.them = HalfThreshold(g)}

(* The earliest of them: the least timestamp, the first in the log among   *)
(* equal timestamps.                                                       *)
EarliestCorrect(g) ==
    {i \in CorrectHalftimes(g) :
        \A j \in CorrectHalftimes(g) :
            \/ g.events[j].timestamp > g.events[i].timestamp
            \/ (g.events[j].timestamp = g.events[i].timestamp /\ j >= i)}

(* The log without its HALFTIME events other than the earliest correct one. *)
OnlyEarliestCorrect(g) ==
    AtPositions(g.events,
                ((1..Len(g.events)) \ HalftimePositions(g)) \cup EarliestCorrect(g), 1)

(* fetch() loads the game from storage for a command other than init. *)
LoadsFromStorage == game = Undef /\ stored # Undef /\ ~InitGame

(* C39, as claimed: on load, when the log holds more than one HALFTIME     *)
(* event and the larger side of the score is 13 or 15, the cleanup keeps   *)
(* only the earliest HALFTIME event whose snapshot has a side at 7 (for    *)
(* 13) or 8 (for 15) and removes every other HALFTIME event; in every      *)
(* other case it removes nothing; it never removes another event.          *)
C39_CleanupKeepsEarliestCorrect ==
    [][LoadsFromStorage =>
          LET pre == Val(stored)
          IN /\ Load.game.events =
                    IF Cardinality(HalftimePositions(pre)) > 1 /\ HalfThreshold(pre) > 0
                    THEN OnlyEarliestCorrect(pre)
                    ELSE pre.events
             /\ GetGame => Val(game').events = Load.game.events]_vars

(* C39, amended: on load, when the log holds more than one HALFTIME event, *)
(* the larger side of the score is 13 or 15 and some HALFTIME event has a  *)
(* snapshot with a side at 7 (for 13) or 8 (for 15), the cleanup keeps the *)
(* earliest such HALFTIME event and removes every other HALFTIME event; in *)
(* every other case, that of no HALFTIME event with such a snapshot        *)
(* included, it removes nothing; it never removes another event.           *)
C39_CleanupNeedsCorrectHalftime ==
    [][LoadsFromStorage =>
          LET pre == Val(stored)
          IN /\ Load.game.events =
                    IF /\ Cardinality(HalftimePositions(pre)) > 1
                       /\ HalfThreshold(pre) > 0
                       /\ CorrectHalftimes(pre) # {}
                    THEN OnlyEarliestCorrect(pre)
                    ELSE pre.events
             /\ GetGame => Val(game').events = Load.game.events]_vars

(* A game of two halftimes, at 8-0 both, and a final score of 15-0 has     *)
(* been loaded: the first halftime is in the log, the second is gone, the  *)
(* start and the fifteen goals are all there.                              *)
C39_Witness ==
    /\ game # Undef
    /\ stored = game
    /\ Val(game).score = [us |-> 15, them |-> 0]
    /\ Len(Val(game).events) = 17
    /\ HalftimePositions(Val(game)) = {10}
    /\ Val(game).events[10].id = MaxIds + 10
    /\ Val(game).events[10].score = [us |-> 8, them |-> 0]

----------------------------------------------------------------------------
(* The score just before the goal at position i: the snapshot of the GOAL  *)
(* event before it in the log, 0-0 before the first.                       *)
ScoreBefore(i) ==
    LET earlier == {j \in 1..(i - 1) : StatsLog[j].type = GOAL}
    IN IF earlier = {} THEN ZeroScore
       ELSE StatsLog[CHOOSE j \in earlier : \A k \in earlier : k <= j].score

(* The GOAL events before which the two scores were at most 2 apart. *)
CloseGoals ==
    {i \in 1..Len(StatsLog) :
        /\ StatsLog[i].type = GOAL
        /\ Abs(ScoreBefore(i).us - ScoreBefore(i).them) <= 2}

(* C33: pointsPlayedWithin2 counts exactly the GOAL events before which    *)
(* the absolute score differential was at most 2, and                      *)
(* scoreDifferentialWithin2 is our goals minus the opponent's goals among  *)
(* those events.                                                           *)
C33_CloseGamePerformance ==
    stats.of = "closeGamePerformance" =>
        LET r == Val(stats.result)
        IN /\ r.pointsPlayedWithin2 = Cardinality(CloseGoals)
           /\ r.scoreDifferentialWithin2 =
                  Cardinality({i \in CloseGoals : StatsLog[i].team = US})
                  - Cardinality({i \in CloseGoals : StatsLog[i].team = THEM})

----------------------------------------------------------------------------
(* C40: for every known starting possession and every log, oLinePoints +   *)
(* dLinePoints is the number of GOAL events, oLineHolds + dLineBreaks is   *)
(* the number of our team's GOAL events, oLineHolds <= oLinePoints and     *)
(* dLineBreaks <= dLinePoints.                                             *)
C40_LineStatsSums ==
    (stats.of = "lineStats" /\ Val(stats.game).startingOnOffense # Undef) =>
        /\ stats.result # Undef
        /\ LET r == Val(stats.result)
               ours == {i \in 1..Len(StatsGoals) : StatsGoals[i].team = US}
           IN /\ r.oLinePoints + r.dLinePoints = Len(StatsGoals)
              /\ r.oLineHolds + r.dLineBreaks = Cardinality(ours)
              /\ r.oLineHolds <= r.oLinePoints
              /\ r.dLineBreaks <= r.dLinePoints

(* The line stats of the long game: 56 goals, 39 of them ours, 16 points   *)
(* on offense all held and 40 on defense with 23 breaks.                   *)
C40_Witness ==
    /\ stats.of = "lineStats"
    /\ Val(stats.game).startingOnOffense = Some(FALSE)
    /\ Len(StatsGoals) = 56
    /\ Val(stats.game).score = [us |-> 39, them |-> 17]
    /\ Val(stats.result).oLinePoints = 16
    /\ Val(stats.result).oLineHolds = 16
    /\ Val(stats.result).dLinePoints = 40
    /\ Val(stats.result).dLineBreaks = 23

----------------------------------------------------------------------------
(* The sum of a field over the players of a result. *)
RECURSIVE SumOver(_, _)
SumOver(players, field) ==
    IF players = <<>> THEN 0
    ELSE Head(players)[field] + SumOver(Tail(players), field)

OurGoals == {i \in 1..Len(StatsLog) : StatsLog[i].type = GOAL /\ StatsLog[i].team = US}

(* Our goals whose message yields a name that can be attributed. *)
AttributableGoals ==
    {i \in OurGoals :
        /\ ~NoMessage(StatsLog[i])
        /\ extractPlayerNames(Val(StatsLog[i].message)) # <<>>}

(* C32: the player statistics are computed on every log; a GOAL whose      *)
(* message yields no attributable name, or that has no message, adds to no *)
(* player's goals or assists, so the goals and the assists of the players  *)
(* each sum to at most the number of our goals that yield a name, and the  *)
(* goals to at most the number of our team's GOAL events.                  *)
C32_UnattributedGoalCreditsNobody ==
    stats.of = "playerStats" =>
        /\ stats.result # Undef
        /\ SumOver(Val(stats.result), "goals") <= Cardinality(AttributableGoals)
        /\ SumOver(Val(stats.result), "assists") <= Cardinality(AttributableGoals)
        /\ SumOver(Val(stats.result), "goals") <= Cardinality(OurGoals)

----------------------------------------------------------------------------
(* The statistics of a player in the i-th game of the season, if the       *)
(* player has an entry there.                                              *)
EntriesIn(i, name) ==
    LET gameStats == calculatePlayerStats(stats.games[i])
    IN {gameStats[k] : k \in {j \in 1..Len(gameStats) : gameStats[j].name = name}}

(* The games of the season in which a player has an entry. *)
GamesOf(name) == {i \in 1..Len(stats.games) : EntriesIn(i, name) # {}}

(* The sum of a field of a player's entries over a set of games. *)
RECURSIVE TotalOf(_, _, _)
TotalOf(name, field, gamesLeft) ==
    IF gamesLeft = {} THEN 0
    ELSE LET i == CHOOSE g \in gamesLeft : TRUE
             entry == CHOOSE e \in EntriesIn(i, name) : TRUE
         IN entry[field] + TotalOf(name, field, gamesLeft \ {i})

OneAndAHalf == [m |-> <<1, Base \div 2, 0, 0, 0>>, e |-> 0]

----------------------------------------------------------------------------
(* The place of the i-th game of the season in date order: after the games *)
(* of earlier dates and after the games of the same date that come before  *)
(* it in the array.                                                        *)
DatePlace(i) ==
    1 + Cardinality({j \in 1..Len(stats.games) :
                        \/ Val(stats.games[j].gameDate) < Val(stats.games[i].gameDate)
                        \/ /\ Val(stats.games[j].gameDate) = Val(stats.games[i].gameDate)
                           /\ j < i})

(* The result of the game at a place in date order. *)
ResultAt(place) ==
    LET g == stats.games[CHOOSE i \in 1..Len(stats.games) : DatePlace(i) = place]
    IN IF g.score.us > g.score.them THEN "win"
       ELSE IF g.score.them > g.score.us THEN "loss"
       ELSE "none"

(* The runs of a result: the games from place a to place b all have it. *)
IsRun(a, b, result) == a <= b /\ \A k \in a..b : ResultAt(k) = result

(* The length of the longest run of a result among the places up to n that *)
(* ends at a place of the set ends; 0 when there is none.                  *)
LongestRun(result, ends) ==
    LET lengths == {0} \cup {b - a + 1 : a \in 1..Len(stats.games), b \in ends}
        runs == {n \in lengths :
                    n = 0 \/ \E a \in 1..Len(stats.games), b \in ends :
                                 b - a + 1 = n /\ IsRun(a, b, result)}
    IN CHOOSE n \in runs : \A m \in runs : m <= n

(* C34: over the games taken in date order, longestWinStreak and           *)
(* longestLossStreak are the lengths of the longest runs of consecutive    *)
(* wins and of consecutive losses, a run being games adjacent in date      *)
(* order that all have the same result, and currentStreak is +n when the   *)
(* most recent games form a run of n wins and -n when they form a run of n *)
(* losses.                                                                 *)
C34_Streaks ==
    stats.of = "teamTrends" =>
        LET r == Val(stats.result).streaks
            n == Len(stats.games)
        IN /\ r.longestWinStreak = LongestRun("win", 1..n)
           /\ r.longestLossStreak = LongestRun("loss", 1..n)
           /\ ResultAt(n) = "win" => r.currentStreak = LongestRun("win", {n})
           /\ ResultAt(n) = "loss" => r.currentStreak = 0 - LongestRun("loss", {n})

----------------------------------------------------------------------------
(* The last command answered 500 and memory holds the effect of an         *)
(* appendEvent of req on the game in storage: that command's write failed. *)
AppendWriteFailed(req) ==
    /\ last.code = 500
    /\ game # Undef
    /\ stored # Undef
    /\ \E t \in 0..MaxTime, id \in 1..(nextId - 1) :
           Val(game) = addEvent(Val(stored), req, t, id).game

(* C35: if a command fails only because its durable write failed and the   *)
(* caller then retries the same command, the final log and score are those *)
(* of the command applied exactly once; here for appendEvent, whose single *)
(* application to the game in storage adds one event and scores the goal   *)
(* once.                                                                   *)
C35_RetryAppliesOnce ==
    [][nextId' = nextId + 1 =>
          \A req \in AddEventRequests :
              (AppendWriteFailed(req) /\ AddEvent(req) /\ last'.code = 200) =>
                  /\ Len(Val(game').events) = Len(Val(stored).events) + 1
                  /\ Val(game').score = addEventScore(Val(stored), req).score]_vars

(* C36: once no save of a router command is outstanding, the row of the    *)
(* game the object holds has the score and the status of the object's game.*)
C36_DirectoryCatchesUp ==
    (flight = <<>> /\ game # Undef /\ heldId \in DOMAIN db.games) =>
        LET row == dbGetGame(db, heldId)
        IN /\ row.score = Val(game).score
           /\ row.status = Val(game).status

====
